---------------------------- MODULE Spec2Model ----------------------------
(* Verification model of TmLibrary:                                        *)
(*   - tmlib.tmaps.canonical : dependency-checked workflow description     *)
(*   - tmlib.workflow.api    : job description store and path conversion   *)
EXTENDS Integers, Sequences, FiniteSets, TLC

VARIABLES
    stages,     \* CanonicalWorkflowDescription.stages: list of stage descriptions
    draft,      \* the CanonicalWorkflowStageDescription object the caller holds
    held,       \* the position of that object in stages, 0 while it is not in the workflow
    last,       \* outcome of the most recent call: operation, raised error, warnings
    batch,      \* the batch (job description) object the path conversions work on
    given,      \* the value of that batch before any conversion
    pform,      \* what the conversions have made of it: given, relative, restored, failed
    plast,      \* the most recent path conversion and the error it raised
    files,      \* the job description directory: file name -> stored batch
    sresult,    \* what the most recent call on the job store returned
    slast,      \* the most recent call on the job store and the error it raised
    swritten,   \* the most recent write_job_files call: its argument and outcome
    db,         \* the submissions table of the database and its id sequence
    created,    \* the WorkflowStep the most recent create_jobs returned, and its error
    jobstate,   \* execution state of each job of the most recent step, kept by the engine
    mon,        \* submit_jobs: position, break_next, status table, report, result
    fin,        \* the input files of combine_datasets: content, existence, the delete flag
    fout,       \* the output file of combine_datasets: <<>> while absent, else <<file>>
    fus,        \* combine_datasets: position, discovered datasets, sizes, cursors, error
    upd,        \* update_datasets: position, the old file, the new file and what it was
    mc,         \* metaconfig create_batches: position, acquisitions, job_count, descriptions
    goc         \* get_or_create: the rows of the table and each worker's position

wfvars == <<stages, draft, held, last>>

pvars == <<batch, given, pform, plast>>

svars == <<files, sresult, slast, swritten>>

jvars == <<db, created, jobstate, mon>>

fvars == <<fin, fout, fus>>

uvars == <<upd>>

mvars == <<mc>>

gvars == <<goc>>

vars == <<stages, draft, held, last, batch, given, pform, plast, files, sresult, slast,
          swritten, db, created, jobstate, mon, fin, fout, fus, upd, mc, goc>>

------------------------------------------------------------------------
(* Helpers *)

Range(s) == {s[i] : i \in 1..Len(s)}

\* [s.name for s in seq]
Names(seq) == [i \in 1..Len(seq) |-> seq[i].name]

------------------------------------------------------------------------
(* Dependency registry: src/src/tmlib/tmaps/canonical.py *)

STAGES ==
    <<"image_conversion", "image_preprocessing",
      "pyramid_creation", "image_analysis">>

STEPS_PER_STAGE ==
    [image_conversion    |-> <<"metaextract", "metaconfig", "imextract">>,
     image_preprocessing |-> <<"corilla", "align">>,
     pyramid_creation    |-> <<"illuminati">>,
     image_analysis      |-> <<"jterator">>]

INTER_STAGE_DEPENDENCIES ==
    [image_conversion    |-> {},
     image_preprocessing |-> {"image_conversion"},
     pyramid_creation    |-> {"image_conversion", "image_preprocessing"},
     image_analysis      |-> {"image_conversion", "image_preprocessing"}]

INTRA_STAGE_DEPENDENCIES ==
    [metaextract |-> {},
     metaconfig  |-> {"metaextract"},
     imextract   |-> {"metaconfig"}]

\* utils.flatten(STEPS_PER_STAGE.values())
AllSteps == UNION {Range(STEPS_PER_STAGE[n]) : n \in DOMAIN STEPS_PER_STAGE}

\* check_stage_name: TRUE when no error is raised
check_stage_name(stage_name) == stage_name \in Range(STAGES)

\* check_step_name: TRUE when no error is raised; stage_name = "" stands for None
check_step_name(step_name, stage_name) ==
    IF stage_name # ""
    THEN step_name \in Range(STEPS_PER_STAGE[stage_name])
    ELSE step_name \in AllSteps

------------------------------------------------------------------------
(* Bounds and inputs *)

\* largest number of steps put into one stage description
MaxSteps == 3

\* largest number of steps of another stage put into the stage descriptions
MaxForeign == 1

NoStage == [name |-> "", steps |-> <<>>]

NoError == "none"

StageNameInputs == Range(STAGES) \cup {"unknown_stage"}

StepNameInputs == AllSteps \cup {"unknown_step"}

\* the steps that are put into a stage description of another stage
ForeignStepInputs == {"corilla"}

------------------------------------------------------------------------
(* CanonicalWorkflowStageDescription.__init__(name), steps=None *)

new_stage(name) ==
    IF ~check_stage_name(name)
    THEN /\ last' = [op |-> "new_stage", arg |-> name,
                     err |-> "UnknownStage", warned |-> {}]
         /\ UNCHANGED <<stages, draft, held>>
    ELSE /\ draft' = [name |-> name, steps |-> <<>>]
         /\ held' = 0
         /\ last' = [op |-> "new_stage", arg |-> name,
                     err |-> NoError, warned |-> {}]
         /\ UNCHANGED stages

(* add_step without the upstream-step test of lines 265-270 *)
add_step_error_no_upstream(steps, name) ==
    IF \E i \in 1..Len(steps) : steps[i] = name
    THEN "DuplicateStep"
    ELSE NoError

(* CanonicalWorkflowStageDescription.add_step: the error it raises for    *)
(* step `name` on step list `steps`, NoError when the step is appended.   *)
add_step_error(steps, name) ==
    IF \E i \in 1..Len(steps) : steps[i] = name
    THEN "DuplicateStep"
    ELSE IF /\ name \in DOMAIN INTRA_STAGE_DEPENDENCIES
            /\ \E dep \in INTRA_STAGE_DEPENDENCIES[name] : dep \notin Range(steps)
         THEN "MissingUpstreamStep"
         ELSE NoError

\* self.steps.append(step_description)
append_step(steps, name) == Append(steps, name)

\* number of steps of a stage description that its stage does not list
ForeignCount(sd) ==
    Cardinality({i \in 1..Len(sd.steps) : ~check_step_name(sd.steps[i], sd.name)})

\* the stage at position pos of the workflow is the object whose steps are now steps
aliased_steps(stgs, pos, steps) ==
    IF pos > 0 THEN [stgs EXCEPT ![pos].steps = steps] ELSE stgs

\* number of steps that their stage does not list, over the caller's stage
\* description and the stages of the workflow (an object in both counts once)
ForeignTotal(stgs, sd, pos) ==
    Cardinality({<<i, j>> \in (1..Len(stgs)) \X (1..MaxSteps) :
                    /\ j <= Len(stgs[i].steps)
                    /\ ~check_step_name(stgs[i].steps[j], stgs[i].name)})
    + (IF pos = 0 THEN ForeignCount(sd) ELSE 0)

(* CanonicalWorkflowStepDescription(name) followed by add_step on the     *)
(* stage description the caller holds. When that object has been added    *)
(* to the workflow (line 207 appends the object itself) the step shows in *)
(* the workflow's stage as well. The guards keep the step lists within   *)
(* MaxSteps and the steps of other stages within MaxForeign.              *)
add_step(name) ==
    /\ draft # NoStage
    /\ Len(draft.steps) < MaxSteps
    /\ (name \in AllSteps /\ ~check_step_name(name, draft.name))
          => /\ name \in ForeignStepInputs
             /\ ForeignTotal(stages, draft, held) < MaxForeign
    /\ IF ~check_step_name(name, "")
       THEN /\ last' = [op |-> "add_step", arg |-> name,
                        err |-> "UnknownStep", warned |-> {}]
            /\ UNCHANGED <<stages, draft, held>>
       ELSE LET e == add_step_error(draft.steps, name) IN
            /\ last' = [op |-> "add_step", arg |-> name, err |-> e, warned |-> {}]
            /\ draft' = IF e = NoError
                        THEN [draft EXCEPT !.steps = append_step(draft.steps, name)]
                        ELSE draft
            /\ stages' = IF e = NoError
                         THEN aliased_steps(stages, held, append_step(draft.steps, name))
                         ELSE stages
            /\ UNCHANGED held

(* CanonicalWorkflowDescription.add_stage: the warnings it logs *)
add_stage_warnings(stgs, sd) ==
    IF sd.name \in DOMAIN INTER_STAGE_DEPENDENCIES
    THEN {dep \in INTER_STAGE_DEPENDENCIES[sd.name] : dep \notin Range(Names(stgs))}
    ELSE {}

\* the loop over step_names against required_steps (lines 200-206)
required_steps_error(sd) ==
    \E i \in 1..Len(sd.steps) : sd.steps[i] \notin Range(STEPS_PER_STAGE[sd.name])

(* add_stage with the duplicate test placed after the step-name test *)
add_stage_error_dup_late(stgs, sd) ==
    IF ~check_stage_name(sd.name)
    THEN "UnknownStage"
    ELSE IF \E i \in 1..Len(sd.steps) : ~check_step_name(sd.steps[i], sd.name)
    THEN "UnknownStep"
    ELSE IF \E i \in 1..Len(stgs) : stgs[i].name = sd.name
    THEN "DuplicateStage"
    ELSE IF \E i \in 1..Len(stgs) : sd.name \in INTER_STAGE_DEPENDENCIES[stgs[i].name]
    THEN "OrderViolation"
    ELSE NoError

(* add_stage with the upstream test looking at the new stage's own table entry *)
add_stage_error_order_reversed(stgs, sd) ==
    IF \E i \in 1..Len(stgs) : stgs[i].name = sd.name
    THEN "DuplicateStage"
    ELSE IF ~check_stage_name(sd.name)
    THEN "UnknownStage"
    ELSE IF \E i \in 1..Len(sd.steps) : ~check_step_name(sd.steps[i], sd.name)
    THEN "UnknownStep"
    ELSE IF \E i \in 1..Len(stgs) : stgs[i].name \in INTER_STAGE_DEPENDENCIES[sd.name]
    THEN "OrderViolation"
    ELSE NoError

(* add_stage without the upstream test of lines 195-199 *)
add_stage_error_no_order(stgs, sd) ==
    IF \E i \in 1..Len(stgs) : stgs[i].name = sd.name
    THEN "DuplicateStage"
    ELSE IF ~check_stage_name(sd.name)
    THEN "UnknownStage"
    ELSE IF \E i \in 1..Len(sd.steps) : ~check_step_name(sd.steps[i], sd.name)
    THEN "UnknownStep"
    ELSE NoError

(* add_stage raising where the code only warns (lines 190-194) *)
add_stage_error_strict(stgs, sd) ==
    IF \E i \in 1..Len(stgs) : stgs[i].name = sd.name
    THEN "DuplicateStage"
    ELSE IF ~check_stage_name(sd.name)
    THEN "UnknownStage"
    ELSE IF \E i \in 1..Len(sd.steps) : ~check_step_name(sd.steps[i], sd.name)
    THEN "UnknownStep"
    ELSE IF \E dep \in INTER_STAGE_DEPENDENCIES[sd.name] :
                \A i \in 1..Len(stgs) : stgs[i].name # dep
    THEN "MissingUpstreamStage"
    ELSE IF \E i \in 1..Len(stgs) : sd.name \in INTER_STAGE_DEPENDENCIES[stgs[i].name]
    THEN "OrderViolation"
    ELSE NoError

(* CanonicalWorkflowDescription.add_stage: the error it raises *)
add_stage_error(stgs, sd) ==
    IF \E i \in 1..Len(stgs) : stgs[i].name = sd.name
    THEN "DuplicateStage"
    ELSE IF ~check_stage_name(sd.name)
    THEN "UnknownStage"
    ELSE IF \E i \in 1..Len(sd.steps) : ~check_step_name(sd.steps[i], sd.name)
    THEN "UnknownStep"
    ELSE IF \E i \in 1..Len(stgs) : sd.name \in INTER_STAGE_DEPENDENCIES[stgs[i].name]
    THEN "OrderViolation"
    ELSE IF required_steps_error(sd)
    THEN "TypeError"
    ELSE NoError

\* whether the call got as far as the warning loop (lines 188-194)
add_stage_reaches_warnings(stgs, sd) ==
    add_stage_error(stgs, sd) \notin {"DuplicateStage", "UnknownStage", "UnknownStep"}

\* the stage inserted in front of the list instead of appended
append_stage_front(stgs, sd) == <<sd>> \o stgs

\* self.stages.append(stage_description)
append_stage(stgs, sd) == Append(stgs, sd)

(* add_stage(draft). The object itself is appended (line 207): the caller  *)
(* still holds it, and it is now the last stage of the workflow.           *)
add_stage ==
    /\ draft # NoStage
    /\ LET e == add_stage_error(stages, draft)
           w == IF add_stage_reaches_warnings(stages, draft)
                THEN add_stage_warnings(stages, draft) ELSE {}
       IN /\ last' = [op |-> "add_stage", arg |-> draft.name,
                      err |-> e, warned |-> w]
          /\ stages' = IF e = NoError THEN append_stage(stages, draft) ELSE stages
          /\ held' = IF e = NoError THEN Len(stages) + 1 ELSE held
          /\ UNCHANGED draft

------------------------------------------------------------------------
(* Specification of the workflow description *)

InitWorkflow ==
    /\ stages = <<>>
    /\ draft = NoStage
    /\ held = 0
    /\ last = [op |-> "init", arg |-> "", err |-> NoError, warned |-> {}]

\* no batch is being converted
PathIdle ==
    /\ batch = [inputs |-> <<>>, outputs |-> <<>>]
    /\ given = batch
    /\ pform = "given"
    /\ plast = [op |-> "init", err |-> NoError]

\* the job description directory is empty and nothing was called on it
StoreIdle ==
    /\ files = <<>>
    /\ sresult = <<>>
    /\ slast = [op |-> "init", err |-> NoError]
    /\ swritten = [calls |-> 0, d |-> [run |-> <<>>], into_empty |-> TRUE,
                   err |-> NoError]

(* submit_jobs before it is called. report and returned are <<>> until   *)
(* a report was emitted and a table returned; extra counts the loop       *)
(* iterations that began with break_next set; engine_err is the error the *)
(* engine raised, err the error submit_jobs raised.                       *)
NotSubmitted ==
    [pc |-> "idle", break_next |-> FALSE, extra |-> 0, status_data |-> <<>>,
     report |-> <<>>, returned |-> <<>>, err |-> NoError, engine_err |-> NoError]

\* no submission in the database, no jobs created, submit_jobs not called
JobsIdle ==
    /\ db = [next_id |-> 1, submissions |-> {}]
    /\ created = [step |-> <<>>, err |-> NoError]
    /\ jobstate = <<>>
    /\ mon = NotSubmitted

\* combine_datasets before it is called
NotCombined ==
    [pc |-> "idle", i |-> 1, object_names |-> <<>>, metadata |-> <<>>,
     features |-> <<>>, segmentation |-> <<>>, n_objects |-> <<>>,
     job_index_count |-> 0, object_index_count |-> <<>>, err |-> NoError]

\* no data files and no fusion under way
FusionIdle ==
    /\ fin = [frags |-> <<>>, exists |-> <<>>, delete |-> FALSE]
    /\ fout = <<>>
    /\ fus = NotCombined

\* update_datasets not called
NotUpdated ==
    [pc |-> "idle", old |-> [groups |-> {}, ds |-> <<>>],
     new |-> [groups |-> {}, ds |-> <<>>], before |-> [groups |-> {}, ds |-> <<>>]]

UpdateIdle == upd = NotUpdated

\* create_batches of the metaconfig step not called
NotPlanned ==
    [pc |-> "idle", acquisitions |-> <<>>, job_count |-> 0, run |-> <<>>, collect |-> <<>>]

BatchesIdle == mc = NotPlanned

\* no worker calls get_or_create
GetOrCreateIdle == goc = [rows |-> {}, next_id |-> 1, workers |-> <<>>]

\* the components without a call
OthersIdle == UpdateIdle /\ BatchesIdle /\ GetOrCreateIdle

Init == InitWorkflow /\ PathIdle /\ StoreIdle /\ JobsIdle /\ FusionIdle /\ OthersIdle

Next ==
    \/ \E n \in StageNameInputs : new_stage(n) /\ UNCHANGED <<pvars, svars, jvars, fvars, uvars, mvars, gvars>>
    \/ \E s \in StepNameInputs : add_step(s) /\ UNCHANGED <<pvars, svars, jvars, fvars, uvars, mvars, gvars>>
    \/ add_stage /\ UNCHANGED <<pvars, svars, jvars, fvars, uvars, mvars, gvars>>

Spec == Init /\ [][Next]_vars

------------------------------------------------------------------------
(* Vocabulary of the workflow claims, stated on the tables alone *)

\* names of the stages of a workflow, as a set
Present(stgs) == {stgs[i].name : i \in 1..Len(stgs)}

\* every step of the stage description is registered for its stage
StepsAllowed(sd) ==
    \A i \in 1..Len(sd.steps) : sd.steps[i] \in Range(STEPS_PER_STAGE[sd.name])

\* some stage of the workflow lists stage n among its upstream stages
ListedAsUpstream(stgs, n) ==
    \E i \in 1..Len(stgs) : n \in INTER_STAGE_DEPENDENCIES[stgs[i].name]

\* upstream stages of n that the workflow does not hold
MissingUpstream(stgs, n) == INTER_STAGE_DEPENDENCIES[n] \ Present(stgs)

\* step s has an intra-stage prerequisite that the step list does not hold
MissingPrerequisite(steps, s) ==
    /\ s \in DOMAIN INTRA_STAGE_DEPENDENCIES
    /\ \E dep \in INTRA_STAGE_DEPENDENCIES[s] : dep \notin Range(steps)

\* every step of the list comes after its intra-stage prerequisites
PrerequisitesEarlier(steps) ==
    \A i \in 1..Len(steps) :
        steps[i] \in DOMAIN INTRA_STAGE_DEPENDENCIES =>
            \A dep \in INTRA_STAGE_DEPENDENCIES[steps[i]] :
                \E j \in 1..(i-1) : steps[j] = dep

\* every stage comes after all of its upstream stages
UpstreamEarlier(stgs) ==
    \A i \in 1..Len(stgs) :
        \A dep \in INTER_STAGE_DEPENDENCIES[stgs[i].name] :
            \E j \in 1..(i-1) : stgs[j].name = dep

\* the stage description lacks a step the registry lists for its stage
Incomplete(sd) ==
    \E s \in Range(STEPS_PER_STAGE[sd.name]) : s \notin Range(sd.steps)

\* the stage sequence only grows at its end: no stage changes its position
AppendOnly == /\ Len(stages') >= Len(stages)
              /\ \A i \in 1..Len(stages) : stages'[i].name = stages[i].name

------------------------------------------------------------------------
(* C1: in a workflow built by calls that respect the dependency tables,  *)
(* an add_step of a step allowed for the stage, not yet present and      *)
(* with its prerequisites present succeeds and appends the step (also    *)
(* when the stage is in the workflow already, whose order it keeps); an  *)
(* add_stage of a new stage with allowed steps and all upstream stages   *)
(* present succeeds and appends the stage at the end, so that the stage  *)
(* sequence is the order of addition.                                    *)
C1_ValidConstructionSucceeds ==
    [][ /\ ( /\ last'.op = "add_step"
             /\ last'.arg \in Range(STEPS_PER_STAGE[draft.name])
             /\ last'.arg \notin Range(draft.steps)
             /\ ~MissingPrerequisite(draft.steps, last'.arg) )
           => /\ last'.err = NoError
              /\ draft' = [draft EXCEPT !.steps = Append(draft.steps, last'.arg)]
              /\ Names(stages') = Names(stages)
              /\ held > 0 => stages'[held] = draft'
        /\ ( /\ last'.op = "add_stage"
             /\ UpstreamEarlier(stages)
             /\ draft.name \notin Present(stages)
             /\ StepsAllowed(draft)
             /\ MissingUpstream(stages, draft.name) = {} )
           => /\ last'.err = NoError
              /\ stages' = Append(stages, draft)
              /\ UpstreamEarlier(stages')
      ]_vars

\* the canonical workflow, every stage complete, built in table order
C1_Witness ==
    /\ last.op = "add_stage" /\ last.err = NoError
    /\ Names(stages) = STAGES
    /\ \A i \in 1..Len(stages) : stages[i].steps = STEPS_PER_STAGE[stages[i].name]

(* C2: add_stage of a stage whose name is already in the workflow fails  *)
(* with DuplicateStage whatever its steps, and the stage sequence stays  *)
(* as it was.                                                            *)
C2_DuplicateStageFails ==
    [][ (last'.op = "add_stage" /\ draft.name \in Present(stages))
           => (last'.err = "DuplicateStage" /\ stages' = stages) ]_vars

\* a duplicate stage holding a step of another stage was rejected
C2_Witness ==
    /\ last.op = "add_stage" /\ last.err = "DuplicateStage"
    /\ draft.name \in Present(stages)
    /\ ~StepsAllowed(draft)

(* C3, as stated: add_stage of X fails with OrderViolation whenever a    *)
(* stage of the workflow lists X as upstream, and the sequence is kept.  *)
C3_Original ==
    [][ (last'.op = "add_stage" /\ ListedAsUpstream(stages, draft.name))
           => (last'.err = "OrderViolation" /\ stages' = stages) ]_vars

(* C3, amended: add_stage of X, X listed as upstream by a stage of the   *)
(* workflow, always fails and keeps the sequence: with DuplicateStage    *)
(* when X is already present, else with UnknownStep when X holds a step  *)
(* of another stage, else with OrderViolation. Stages are never          *)
(* reordered: the sequence only grows at its end.                        *)
C3_OrderViolation ==
    [][ /\ (last'.op = "add_stage" /\ ListedAsUpstream(stages, draft.name))
           => /\ stages' = stages
              /\ last'.err = IF draft.name \in Present(stages) THEN "DuplicateStage"
                             ELSE IF ~StepsAllowed(draft) THEN "UnknownStep"
                             ELSE "OrderViolation"
        /\ AppendOnly
      ]_vars

\* image_conversion was refused after image_preprocessing had been added
C3_Witness ==
    /\ last.op = "add_stage" /\ last.err = "OrderViolation"
    /\ draft.name = "image_conversion"
    /\ "image_preprocessing" \in Present(stages)

(* C4, as stated: add_stage fails with IncompleteStage whenever the      *)
(* stage lacks a step the registry lists for it, and does not append it. *)
C4_IncompleteStageFails ==
    [][ (last'.op = "add_stage" /\ Incomplete(draft))
           => (last'.err = "IncompleteStage" /\ stages' = stages) ]_vars

(* C5, as stated: every stage of the workflow has each of its upstream   *)
(* stages at a strictly smaller position.                                *)
C5_Original == UpstreamEarlier(stages)

(* C5, amended: every upstream stage of a stage S that the workflow      *)
(* holds is at a strictly smaller position than S; an upstream stage may *)
(* be absent from the workflow.                                          *)
C5_PresentUpstreamEarlier ==
    \A i \in 1..Len(stages) :
        \A dep \in INTER_STAGE_DEPENDENCIES[stages[i].name] :
            \A j \in 1..Len(stages) : stages[j].name = dep => j < i

\* a stage with one upstream stage before it and another one absent
C5_Witness ==
    \E i \in 1..Len(stages) :
        /\ \E j \in 1..(i-1) : stages[j].name \in INTER_STAGE_DEPENDENCIES[stages[i].name]
        /\ MissingUpstream(stages, stages[i].name) # {}

(* C6: add_stage of a stage with an upstream stage not yet added, all    *)
(* other checks passing, logs a warning for each missing upstream stage  *)
(* and appends the stage.                                                *)
C6_MissingUpstreamOnlyWarns ==
    [][ ( /\ last'.op = "add_stage"
          /\ MissingUpstream(stages, draft.name) # {}
          /\ draft.name \notin Present(stages)
          /\ StepsAllowed(draft)
          /\ ~ListedAsUpstream(stages, draft.name) )
           => /\ last'.err = NoError
              /\ last'.warned = MissingUpstream(stages, draft.name)
              /\ stages' = Append(stages, draft)
      ]_vars

\* pyramid_creation was appended to a workflow without image_conversion
C6_Witness ==
    /\ last.op = "add_stage" /\ last.err = NoError
    /\ last.warned # {}
    /\ Len(stages) > 0
    /\ stages[Len(stages)].name = last.arg
    /\ last.warned \cap Present(stages) = {}

(* C7: in every stage description, under construction or in the          *)
(* workflow, each step comes after its intra-stage prerequisites, and    *)
(* add_step of a step with a missing prerequisite fails with             *)
(* MissingUpstreamStep and keeps the step list.                          *)
C7_IntraStagePrerequisites ==
    /\ [](/\ PrerequisitesEarlier(draft.steps)
          /\ \A i \in 1..Len(stages) : PrerequisitesEarlier(stages[i].steps))
    /\ [][ (last'.op = "add_step" /\ MissingPrerequisite(draft.steps, last'.arg))
             => (last'.err = "MissingUpstreamStep" /\ draft' = draft
                                                  /\ stages' = stages) ]_vars

\* imextract was refused in a stage that holds metaextract but not metaconfig
C7_Witness ==
    /\ last.op = "add_step" /\ last.err = "MissingUpstreamStep"
    /\ last.arg = "imextract"
    /\ draft.steps = <<"metaextract">>

------------------------------------------------------------------------
(* Path conversion of job descriptions: src/src/tmlib/workflow/api.py     *)
(*                                                                        *)
(* A path string is modelled by the list of its components, the result    *)
(* of splitting it at "/": "/data/exp/a" is <<"", "data", "exp", "a">>,   *)
(* "a/b" is <<"a", "b">>, "." is <<".">>. The mapping is one to one.      *)
(* A value of a batch is tagged with its Python type: str, list, dict,    *)
(* int.                                                                   *)

\* largest number of components of an input path below the experiment root
MaxTail == 2

\* largest number of paths in one path list of an input batch
MaxLen == 1

\* self.experiment_location: "/data/exp"
experiment_location == <<"", "data", "exp">>

PyStr(p) == [t |-> "str", v |-> p]

PyList(seq) == [t |-> "list", v |-> seq]

PyDict(f) == [t |-> "dict", v |-> f]

PyInt(n) == [t |-> "int", v |-> n]

\* str.startswith("/")
IsAbs(p) == Len(p) >= 2 /\ p[1] = ""

\* os.path.join(a, b)
join(a, b) ==
    IF IsAbs(b) THEN b
    ELSE IF a[Len(a)] = "" THEN SubSeq(a, 1, Len(a) - 1) \o b
    ELSE a \o b

(* os.path.normpath of an absolute path, as the list of its non-empty     *)
(* components: "" and "." are dropped, ".." drops the component before it *)
RECURSIVE normpath(_, _)
normpath(parts, stack) ==
    IF parts = <<>> THEN stack
    ELSE LET c == Head(parts) IN
         IF c = "" \/ c = "." THEN normpath(Tail(parts), stack)
         ELSE IF c = ".."
         THEN normpath(Tail(parts),
                       IF stack = <<>> THEN stack
                       ELSE SubSeq(stack, 1, Len(stack) - 1))
         ELSE normpath(Tail(parts), Append(stack, c))

\* len(os.path.commonprefix([a, b])) of two component lists
RECURSIVE commonprefix(_, _)
commonprefix(a, b) ==
    IF a = <<>> \/ b = <<>> \/ Head(a) # Head(b) THEN 0
    ELSE 1 + commonprefix(Tail(a), Tail(b))

\* os.path.basename(path) in the place of os.path.relpath(path, start)
relpath_basename(path, start) == <<path[Len(path)]>>

\* `if not rel_list: return curdir`, else join(*rel_list)
rel_or_curdir(rel_list) == IF rel_list = <<>> THEN <<".">> ELSE rel_list

\* [pardir] * (len(start_list) - i) + path_list[i:]
rel_list_from(start_list, path_list, i) ==
    rel_or_curdir([k \in 1..(Len(start_list) - i) |-> ".."]
                      \o SubSeq(path_list, i + 1, Len(path_list)))

\* relpath on the component lists of abspath(start) and abspath(path)
rel_list_of(start_list, path_list) ==
    rel_list_from(start_list, path_list, commonprefix(start_list, path_list))

\* os.path.relpath(path, start) of absolute paths
relpath(path, start) == rel_list_of(normpath(start, <<>>), normpath(path, <<>>))

\* the conversion of one path string: os.path.join or os.path.relpath
convert_path(mode, p) ==
    IF mode = "absolute" THEN join(experiment_location, p)
    ELSE relpath(p, experiment_location)

\* [convert(sub_v) for sub_v in v]
convert_list(mode, lst) ==
    PyList([i \in 1..Len(lst.v) |-> PyStr(convert_path(mode, lst.v[i].v))])

\* a list value: empty (continue), list of lists, or list of paths
convert_list_value(mode, value) ==
    IF Len(value.v) = 0 THEN value
    ELSE IF value.v[1].t = "list"
    THEN PyList([i \in 1..Len(value.v) |-> convert_list(mode, value.v[i])])
    ELSE convert_list(mode, value)

\* a value of a mapping: a list of paths, or else taken for one path
convert_dict_item(mode, v) ==
    IF v.t = "list" THEN convert_list(mode, v)
    ELSE PyStr(convert_path(mode, v.v))

\* for k, v in value.items(): value[k] = ...
convert_dict_value(mode, value) ==
    PyDict([k \in DOMAIN value.v |-> convert_dict_item(mode, value.v[k])])

\* outputs converted like inputs: a mapping accepted, a string refused
convert_output_like_input(mode, value) ==
    IF value.t = "dict"
    THEN [err |-> NoError, v |-> convert_dict_value(mode, value)]
    ELSE IF value.t = "list"
    THEN [err |-> NoError, v |-> convert_list_value(mode, value)]
    ELSE [err |-> "TypeError", v |-> value]

(* one key of batch['inputs'] (lines 454-483 and 572-601): the error      *)
(* raised and the value stored                                            *)
convert_input(mode, value) ==
    IF value.t = "dict"
    THEN [err |-> NoError, v |-> convert_dict_value(mode, value)]
    ELSE IF value.t = "list"
    THEN [err |-> NoError, v |-> convert_list_value(mode, value)]
    ELSE [err |-> "TypeError", v |-> value]

(* one key of batch['outputs'] (lines 484-506 and 602-624) *)
convert_output(mode, value) ==
    IF value.t = "list"
    THEN [err |-> NoError, v |-> convert_list_value(mode, value)]
    ELSE IF value.t = "str"
    THEN [err |-> NoError, v |-> PyStr(convert_path(mode, value.v))]
    ELSE [err |-> "TypeError", v |-> value]

(* The batch and the error after the loops over inputs and outputs, ins   *)
(* and outs being the conversion of each key: the inputs are converted    *)
(* before the outputs, and an error leaves the keys converted so far as   *)
(* they are. Exact for batches of at most one key in inputs and outputs.  *)
converted_batch(b, ins, outs) ==
    IF \E k \in DOMAIN ins : ins[k].err # NoError
    THEN [err |-> "TypeError", batch |-> b]
    ELSE IF \E k \in DOMAIN outs : outs[k].err # NoError
    THEN [err |-> "TypeError",
          batch |-> [b EXCEPT !.inputs = [k \in DOMAIN ins |-> ins[k].v]]]
    ELSE [err |-> NoError,
          batch |-> [b EXCEPT !.inputs = [k \in DOMAIN ins |-> ins[k].v],
                              !.outputs = [k \in DOMAIN outs |-> outs[k].v]]]

\* _make_paths_absolute / _make_paths_relative on batch b, changed in place
make_paths(mode, b) ==
    converted_batch(b,
        [k \in DOMAIN b.inputs |-> convert_input(mode, b.inputs[k])],
        [k \in DOMAIN b.outputs |-> convert_output(mode, b.outputs[k])])

\* the batch object and the outcome after a conversion returned r
converted(op, r, form) ==
    /\ batch' = r.batch
    /\ plast' = [op |-> op, err |-> r.err]
    /\ pform' = IF r.err = NoError THEN form ELSE "failed"
    /\ UNCHANGED given

\* ClusterRoutines._make_paths_relative(batch), the paths of batch absolute
make_paths_relative ==
    /\ pform \in {"given", "restored"}
    /\ converted("make_paths_relative", make_paths("relative", batch), "relative")

\* ClusterRoutines._make_paths_absolute(batch)
make_paths_absolute ==
    /\ pform \in {"given", "relative", "restored"}
    /\ converted("make_paths_absolute", make_paths("absolute", batch),
                 IF pform = "relative" THEN "restored" ELSE pform)

(* Input batches *)

PathComponents == {"a", "..", "."}

\* absolute paths that start with the text of the experiment root
PathInputs ==
    {experiment_location \o t : t \in UNION {[1..n -> PathComponents] : n \in 0..MaxTail}}

PathListInputs == UNION {[1..n -> PathInputs] : n \in 0..MaxLen}

Shapes == {"flat", "nested", "dict_list", "dict_str", "str", "int", "none"}

\* the list of path strings ps as a Python list of str
FlatValue(ps) == PyList([i \in 1..Len(ps) |-> PyStr(ps[i])])

\* the value of the given shape holding the paths ps
ShapedValue(shape, ps) ==
    CASE shape = "flat" -> FlatValue(ps)
      [] shape = "nested" -> PyList(<<FlatValue(ps), FlatValue(ps)>>)
      [] shape = "dict_list" -> PyDict([k \in {"site"} |-> FlatValue(ps)])
      [] shape = "dict_str" -> PyDict([k \in {"site"} |-> PyStr(ps[1])])
      [] shape = "str" -> PyStr(ps[1])
      [] shape = "int" -> PyInt(Len(ps))

\* one section of a batch: no key, or the key "files" with a shaped value
Section(shape, ps) ==
    IF shape = "none" THEN <<>> ELSE [k \in {"files"} |-> ShapedValue(shape, ps)]

BatchInputs ==
    {[inputs |-> Section(si, ps), outputs |-> Section(so, ps)] :
        si \in Shapes, so \in Shapes,
        ps \in {l \in PathListInputs : Len(l) >= 1}}
    \cup
    {[inputs |-> Section(si, <<>>), outputs |-> Section(so, <<>>)] :
        si \in {"flat", "nested", "dict_list", "int", "none"},
        so \in {"flat", "nested", "dict_list", "int", "none"}}

------------------------------------------------------------------------
(* Specification of the path conversions *)

\* no workflow is being described
WorkflowIdle == InitWorkflow

PathInit ==
    /\ batch \in BatchInputs
    /\ given = batch
    /\ pform = "given"
    /\ plast = [op |-> "init", err |-> NoError]

InitPaths == PathInit /\ WorkflowIdle /\ StoreIdle /\ JobsIdle /\ FusionIdle /\ OthersIdle

NextPaths ==
    \/ make_paths_relative /\ UNCHANGED <<wfvars, svars, jvars, fvars, uvars, mvars, gvars>>
    \/ make_paths_absolute /\ UNCHANGED <<wfvars, svars, jvars, fvars, uvars, mvars, gvars>>

SpecPaths == InitPaths /\ [][NextPaths]_vars

------------------------------------------------------------------------
(* Vocabulary of the path claims *)

\* a sequence of path strings (possibly empty)
IsPathList(v) == v.t = "list" /\ \A i \in 1..Len(v.v) : v.v[i].t = "str"

\* a one-level nested sequence of sequences of path strings
IsNestedList(v) == v.t = "list" /\ \A i \in 1..Len(v.v) : IsPathList(v.v[i])

\* a mapping to sequences of path strings
IsMappingToList(v) == v.t = "dict" /\ \A k \in DOMAIN v.v : IsPathList(v.v[k])

\* a mapping to sequences of path strings or to single path strings
IsMapping(v) ==
    v.t = "dict" /\ \A k \in DOMAIN v.v : IsPathList(v.v[k]) \/ v.v[k].t = "str"

\* one of the three shapes of the data model
ThreeShapes(v) == IsPathList(v) \/ IsNestedList(v) \/ IsMappingToList(v)

\* the path strings of a list of strings
PathsOfList(v) == {v.v[i].v : i \in 1..Len(v.v)}

\* the path strings a value holds
PathsOf(v) ==
    IF v.t = "str" THEN {v.v}
    ELSE IF v.t = "list"
    THEN UNION {IF v.v[i].t = "str" THEN {v.v[i].v} ELSE PathsOfList(v.v[i]) :
                    i \in 1..Len(v.v)}
    ELSE IF v.t = "dict"
    THEN UNION {IF v.v[k].t = "str" THEN {v.v[k].v} ELSE PathsOfList(v.v[k]) :
                    k \in DOMAIN v.v}
    ELSE {}

\* the path strings of a batch
PathsOfBatch(b) ==
    UNION ({PathsOf(b.inputs[k]) : k \in DOMAIN b.inputs}
             \cup {PathsOf(b.outputs[k]) : k \in DOMAIN b.outputs})

\* the location the path names lies below the experiment root
UnderRoot(p) ==
    LET n == normpath(p, <<>>)
        r == normpath(experiment_location, <<>>)
    IN IsAbs(p) /\ Len(n) > Len(r) /\ SubSeq(n, 1, Len(r)) = r

\* the path is written without ".", ".." and empty components
Normalised(p) == p = <<"">> \o normpath(p, <<>>)

(* C8, as stated: for a batch whose inputs and outputs have one of the   *)
(* shapes flat list, nested list, mapping to list or empty list, and     *)
(* whose paths all lie under the experiment root, the conversions        *)
(* succeed and making the relative batch absolute gives the batch back.  *)
C8_Original ==
    ( /\ \A k \in DOMAIN given.inputs : ThreeShapes(given.inputs[k])
      /\ \A k \in DOMAIN given.outputs : ThreeShapes(given.outputs[k])
      /\ \A q \in PathsOfBatch(given) : UnderRoot(q) )
    => /\ plast.err = NoError
       /\ pform = "restored" => batch = given

(* C8, amended: the round trip gives the batch back when the inputs are  *)
(* a flat list, a nested list, a mapping to lists or an empty list, the  *)
(* outputs are a flat list, a nested list or an empty list (not a        *)
(* mapping), and every path is a normalised path below the root.         *)
C8_RoundTrip ==
    ( /\ \A k \in DOMAIN given.inputs : ThreeShapes(given.inputs[k])
      /\ \A k \in DOMAIN given.outputs :
            IsPathList(given.outputs[k]) \/ IsNestedList(given.outputs[k])
      /\ \A q \in PathsOfBatch(given) : UnderRoot(q) /\ Normalised(q) )
    => /\ plast.err = NoError
       /\ pform = "restored" => batch = given

\* a batch of a mapping input and a nested output, two levels below the
\* root, made relative and absolute again
C8_Witness ==
    /\ pform = "restored" /\ plast.op = "make_paths_absolute"
    /\ plast.err = NoError
    /\ DOMAIN given.inputs # {} /\ DOMAIN given.outputs # {}
    /\ \A k \in DOMAIN given.inputs : given.inputs[k].t = "dict"
    /\ \A k \in DOMAIN given.outputs :
          IsNestedList(given.outputs[k]) /\ ~IsPathList(given.outputs[k])
    /\ \E q \in PathsOfBatch(given) :
          UnderRoot(q) /\ Normalised(q) /\ Len(q) = Len(experiment_location) + 2
    /\ \A q \in PathsOfBatch(given) : UnderRoot(q) /\ Normalised(q)
    /\ batch = given

(* C9, as stated: a conversion succeeds exactly when every key of the    *)
(* inputs and of the outputs has one of the three shapes, and fails with *)
(* TypeError otherwise.                                                  *)
C9_Original ==
    plast.op # "init" =>
        /\ plast.err \in {NoError, "TypeError"}
        /\ plast.err = NoError <=>
              /\ \A k \in DOMAIN given.inputs : ThreeShapes(given.inputs[k])
              /\ \A k \in DOMAIN given.outputs : ThreeShapes(given.outputs[k])

(* C9, amended: a conversion succeeds exactly when every key of the      *)
(* inputs holds a flat list, a nested list or a mapping (to lists or to  *)
(* single paths) and every key of the outputs holds a flat list, a       *)
(* nested list or a single path string; otherwise (a string or a number  *)
(* in the inputs, a mapping or a number in the outputs) it fails with    *)
(* TypeError.                                                            *)
C9_Shapes ==
    plast.op # "init" =>
        /\ plast.err \in {NoError, "TypeError"}
        /\ plast.err = NoError <=>
              /\ \A k \in DOMAIN given.inputs :
                    \/ IsPathList(given.inputs[k])
                    \/ IsNestedList(given.inputs[k])
                    \/ IsMapping(given.inputs[k])
              /\ \A k \in DOMAIN given.outputs :
                    \/ IsPathList(given.outputs[k])
                    \/ IsNestedList(given.outputs[k])
                    \/ given.outputs[k].t = "str"

\* a mapping in the outputs was refused after the inputs had been converted
C9_Witness ==
    /\ plast.op = "make_paths_relative" /\ plast.err = "TypeError"
    /\ \E k \in DOMAIN given.outputs : IsMappingToList(given.outputs[k])
    /\ \E k \in DOMAIN given.inputs :
          IsPathList(given.inputs[k]) /\ Len(given.inputs[k].v) > 0
    /\ batch.inputs # given.inputs

------------------------------------------------------------------------
(* Job description files: src/src/tmlib/workflow/api.py                   *)
(*                                                                        *)
(* The directory job_descriptions_location is a mapping from file names   *)
(* to the stored JSON objects. The file "<step>_run_<%.6d>.job.json" of   *)
(* job id n is named <<"run", n>>, "<step>_collect.job.json" is           *)
(* <<"collect", 0>>; the step name holds neither "_run_" nor "_collect".  *)

\* largest number of run batches of one job description
MaxRun == 2

\* largest number of write_job_files calls on one directory
MaxWrites == 2

\* a file name that does not hold the job id
build_run_job_filename_fixed(job_id) == <<"run", 1>>

\* build_run_job_filename(job_id)
build_run_job_filename(job_id) == <<"run", job_id>>

\* build_collect_job_filename()
build_collect_job_filename == <<"collect", 0>>

\* glob.glob('*_run_*.job.json')
glob_run(fs) == {f \in DOMAIN fs : f[1] = "run"}

\* glob.glob('*_collect.job.json')
glob_collect(fs) == {f \in DOMAIN fs : f[1] = "collect"}

\* the directory after writing content to the file name
write_file(fs, name, content) ==
    [f \in DOMAIN fs \cup {name} |-> IF f = name THEN content ELSE fs[f]]

\* _check_io_description: TRUE when it raises TypeError
check_io_description(d) ==
    \/ \E i \in 1..Len(d.run) :
          \E k \in DOMAIN d.run[i].outputs : d.run[i].outputs[k].t # "list"
    \/ /\ "collect" \in DOMAIN d
       /\ \E k \in DOMAIN d.collect.outputs : d.collect.outputs[k].t # "list"

(* the loop of write_job_files over job_descriptions['run'] from batch i  *)
(* on: the error raised and the directory left behind. rel[i] is the      *)
(* conversion of batch i, which is written before batch i + 1 is          *)
(* converted.                                                             *)
RECURSIVE write_run_files(_, _, _)
write_run_files(fs, rel, i) ==
    IF i > Len(rel) THEN [err |-> NoError, files |-> fs]
    ELSE IF rel[i].err # NoError THEN [err |-> rel[i].err, files |-> fs]
    ELSE write_run_files(
             write_file(fs, build_run_job_filename(rel[i].batch.id), rel[i].batch),
             rel, i + 1)

\* lines 651-655: the collect batch, w the outcome of the run loop and r
\* the conversion of the collect batch
write_collect_file(w, has_collect, r) ==
    IF w.err # NoError \/ ~has_collect THEN w
    ELSE IF r.err # NoError THEN [err |-> r.err, files |-> w.files]
    ELSE [err |-> NoError,
          files |-> write_file(w.files, build_collect_job_filename, r.batch)]

\* write_job_files(job_descriptions): the error raised and the directory
write_job_files_result(fs, d) ==
    IF check_io_description(d) THEN [err |-> "TypeError", files |-> fs]
    ELSE write_collect_file(
             write_run_files(fs,
                 [i \in 1..Len(d.run) |-> make_paths("relative", d.run[i])], 1),
             "collect" \in DOMAIN d,
             IF "collect" \in DOMAIN d THEN make_paths("relative", d.collect)
             ELSE [err |-> NoError, batch |-> <<>>])

\* the directory and the outcome after write_job_files(d) ended as w
written(w, d) ==
    /\ files' = w.files
    /\ slast' = [op |-> "write_job_files", err |-> w.err]
    /\ sresult' = <<>>
    /\ swritten' = [calls |-> swritten.calls + 1, d |-> d,
                    into_empty |-> DOMAIN files = {}, err |-> w.err]

write_job_files(d) ==
    /\ swritten.calls < MaxWrites
    /\ written(write_job_files_result(files, d), d)

\* the run-file test of a reader that also accepts a lone collect file
no_run_files_nor_collect(fs) == glob_run(fs) = {} /\ glob_collect(fs) = {}

\* `if not run_job_files` (line 300)
no_run_files(fs) == glob_run(fs) = {}

\* read_job_file(filename): the error raised and the batch returned
read_job_file(fs, filename) ==
    IF filename \notin DOMAIN fs
    THEN [err |-> "WorkflowError", batch |-> <<>>]
    ELSE make_paths("absolute", fs[filename])

\* the orders in which glob may list the files of a set
Orders(S) ==
    {o \in [1..Cardinality(S) -> S] : \A i, j \in 1..Cardinality(S) : o[i] = o[j] => i = j}

(* get_job_descriptions_from_files(), the run files listed in order o: the *)
(* error raised and the dictionary returned                                *)
\* a reader that never looks for the collect file
collected_descriptions_run_only(reads, has_collect, cread) ==
    IF \E i \in 1..Len(reads) : reads[i].err # NoError
    THEN [err |-> "TypeError", value |-> <<>>]
    ELSE [err |-> NoError, value |-> [run |-> [i \in 1..Len(reads) |-> reads[i].batch]]]

\* lines 306-313: reads are the run files read, cread the collect file read
collected_descriptions(reads, has_collect, cread) ==
    IF \E i \in 1..Len(reads) : reads[i].err # NoError
    THEN [err |-> "TypeError", value |-> <<>>]
    ELSE IF ~has_collect
    THEN [err |-> NoError, value |-> [run |-> [i \in 1..Len(reads) |-> reads[i].batch]]]
    ELSE IF cread.err # NoError THEN [err |-> cread.err, value |-> <<>>]
    ELSE [err |-> NoError,
          value |-> [run |-> [i \in 1..Len(reads) |-> reads[i].batch],
                     collect |-> cread.batch]]

get_job_descriptions_result(fs, o) ==
    IF no_run_files(fs)
    THEN [err |-> "JobDescriptionError", value |-> <<>>]
    ELSE collected_descriptions(
             [i \in 1..Len(o) |-> read_job_file(fs, o[i])],
             glob_collect(fs) # {},
             read_job_file(fs, build_collect_job_filename))

\* the outcome after get_job_descriptions_from_files ended as g
got(g) ==
    /\ sresult' = g.value
    /\ slast' = [op |-> "get_job_descriptions_from_files", err |-> g.err]
    /\ UNCHANGED <<files, swritten>>

get_job_descriptions_from_files ==
    \E o \in Orders(glob_run(files)) : got(get_job_descriptions_result(files, o))

(* Input job descriptions *)

StorePathA == experiment_location \o <<"a">>

StorePathB == experiment_location \o <<"a", "b">>

\* a path below the root that is written with a ".." component
StorePathDotted == experiment_location \o <<"a", "..", "b">>

RunVariants ==
    {"lists", "mapping", "no_outputs", "dotted", "input_string", "output_string"}

\* run batch of job id i: lists; a mapping input; no outputs at all; a
\* string where a list is required in the inputs; a string in the outputs
RunBatchInput(i, variant) ==
    CASE variant = "lists" ->
            [id |-> i, inputs |-> Section("flat", <<StorePathA>>),
                       outputs |-> Section("flat", <<StorePathB>>)]
      [] variant = "mapping" ->
            [id |-> i, inputs |-> Section("dict_list", <<StorePathB>>),
                       outputs |-> Section("nested", <<StorePathA>>)]
      [] variant = "no_outputs" ->
            [id |-> i, inputs |-> Section("flat", <<StorePathA, StorePathB>>),
                       outputs |-> Section("none", <<>>)]
      [] variant = "dotted" ->
            [id |-> i, inputs |-> Section("flat", <<StorePathDotted>>),
                       outputs |-> Section("flat", <<StorePathA>>)]
      [] variant = "input_string" ->
            [id |-> i, inputs |-> Section("str", <<StorePathA>>),
                       outputs |-> Section("flat", <<StorePathB>>)]
      [] variant = "output_string" ->
            [id |-> i, inputs |-> Section("flat", <<StorePathA>>),
                       outputs |-> Section("str", <<StorePathB>>)]

CollectBatchInputs ==
    {[inputs |-> Section("none", <<>>), outputs |-> Section("none", <<>>)],
     [inputs |-> Section("flat", <<StorePathB>>),
      outputs |-> Section("flat", <<StorePathA>>)]}

\* run lists of n batches with the ids 1..n, the last batch of any variant
\* and the batches before it of lists
RunListInputs ==
    {[i \in 1..n |-> RunBatchInput(i, IF i = n THEN v ELSE "lists")] :
        n \in 0..MaxRun, v \in RunVariants}

JobDescriptionInputs ==
    {[run |-> l] : l \in RunListInputs}
    \cup {[run |-> l, collect |-> c] : l \in RunListInputs, c \in CollectBatchInputs}

------------------------------------------------------------------------
(* Specification of the job description store *)

InitStore == StoreIdle /\ WorkflowIdle /\ PathIdle /\ JobsIdle /\ FusionIdle /\ OthersIdle

NextStore ==
    \/ \E d \in JobDescriptionInputs : write_job_files(d) /\ UNCHANGED <<wfvars, pvars, jvars, fvars, uvars, mvars, gvars>>
    \/ get_job_descriptions_from_files /\ UNCHANGED <<wfvars, pvars, jvars, fvars, uvars, mvars, gvars>>

SpecStore == InitStore /\ [][NextStore]_vars

(* C10: with no run job file in the directory,                           *)
(* get_job_descriptions_from_files raises JobDescriptionError ("No job   *)
(* descriptor files found"), with or without a collect file, and         *)
(* returns nothing.                                                      *)
C10_NoRunFilesFails ==
    (slast.op = "get_job_descriptions_from_files" /\ glob_run(files) = {})
        => (slast.err = "JobDescriptionError" /\ sresult = <<>>)

\* the reader failed on a directory that holds a collect file only
C10_Witness ==
    /\ slast.op = "get_job_descriptions_from_files"
    /\ slast.err = "JobDescriptionError"
    /\ DOMAIN files = {build_collect_job_filename}


(* C11: when the directory holds at least one run file, the reader        *)
(* succeeds and its result has the key "collect" exactly when the         *)
(* directory holds a collect file.                                        *)
C11_CollectKeyIffCollectFile ==
    (slast.op = "get_job_descriptions_from_files" /\ glob_run(files) # {})
        => /\ slast.err = NoError
           /\ "run" \in DOMAIN sresult
           /\ "collect" \in DOMAIN sresult <=> glob_collect(files) # {}

\* two run files and no collect file were read: the result has no "collect"
C11_Witness ==
    /\ slast.op = "get_job_descriptions_from_files" /\ slast.err = NoError
    /\ Cardinality(glob_run(files)) = 2 /\ glob_collect(files) = {}
    /\ DOMAIN sresult = {"run"} /\ Len(sresult.run) = 2

\* the batches of a list as a set
BatchSet(l) == {l[i] : i \in 1..Len(l)}

\* the paths of a job description
PathsOfDescription(d) ==
    UNION ({PathsOfBatch(d.run[i]) : i \in 1..Len(d.run)}
             \cup (IF "collect" \in DOMAIN d THEN {PathsOfBatch(d.collect)} ELSE {}))

\* what was read back is what the most recent write was given
ReadBackEqualsWritten ==
    /\ slast.err = NoError
    /\ Len(sresult.run) = Len(swritten.d.run)
    /\ BatchSet(sresult.run) = BatchSet(swritten.d.run)
    /\ "collect" \in DOMAIN sresult <=> "collect" \in DOMAIN swritten.d
    /\ "collect" \in DOMAIN sresult => sresult.collect = swritten.d.collect
    /\ \A q \in PathsOfDescription(sresult) : IsAbs(q)

\* the reader ran after a write of at least one run batch into an empty
\* directory that raised nothing
ReadAfterFreshWrite ==
    /\ slast.op = "get_job_descriptions_from_files"
    /\ swritten.calls > 0 /\ swritten.err = NoError /\ swritten.into_empty
    /\ Len(swritten.d.run) > 0

(* C12, as stated: after write_job_files(d) into an empty directory, all  *)
(* paths of d under the experiment root, the reader returns the run       *)
(* batches of d (same ids, inputs and outputs, every path absolute) and   *)
(* the collect batch of d if it has one.                                  *)
C12_Original ==
    (ReadAfterFreshWrite /\ \A q \in PathsOfDescription(swritten.d) : UnderRoot(q))
        => ReadBackEqualsWritten

(* C12, amended: the same for a d whose paths are all normalised paths    *)
(* below the experiment root; the run batches come back in any order.     *)
C12_StoreRoundTrip ==
    (ReadAfterFreshWrite
       /\ \A q \in PathsOfDescription(swritten.d) : UnderRoot(q) /\ Normalised(q))
        => ReadBackEqualsWritten

\* two run batches, one of them with a mapping input, and a collect batch
\* with paths were written into the empty directory and read back
C12_Witness ==
    /\ ReadAfterFreshWrite /\ ReadBackEqualsWritten
    /\ Len(swritten.d.run) = 2
    /\ \E i \in 1..2 : \E k \in DOMAIN swritten.d.run[i].inputs :
          IsMappingToList(swritten.d.run[i].inputs[k])
    /\ "collect" \in DOMAIN swritten.d
    /\ PathsOfBatch(swritten.d.collect) # {}
    /\ \A q \in PathsOfDescription(swritten.d) : UnderRoot(q) /\ Normalised(q)

(* C29: in every reachable workflow state no stage precedes one of its    *)
(* own upstream stages: for any two stages A and B of the workflow, B     *)
(* among the upstream stages of A, B stands before A, also when stages    *)
(* were added with upstream stages missing.                               *)
C29_NoStageBeforeItsUpstream ==
    \A a, b \in 1..Len(stages) :
        stages[b].name \in INTER_STAGE_DEPENDENCIES[stages[a].name] => b < a

\* the first stage of the workflow was added with an upstream stage missing
\* and a later stage has it as upstream stage
C29_Witness ==
    /\ Len(stages) >= 2
    /\ MissingUpstream(stages, stages[1].name) # {}
    /\ \E a \in 2..Len(stages) :
           stages[1].name \in INTER_STAGE_DEPENDENCIES[stages[a].name]

\* the ids of the run batches of a list
BatchIds(l) == {l[i].id : i \in 1..Len(l)}

(* C28: after any sequence of write_job_files calls, the reader returns    *)
(* the run batches of the most recent call and no batch of an earlier      *)
(* one, and a collect batch exactly when the most recent call wrote one.   *)
C28_ReadsMostRecentWrite ==
    (/\ slast.op = "get_job_descriptions_from_files" /\ slast.err = NoError
     /\ swritten.calls > 0 /\ swritten.err = NoError)
        => /\ Len(sresult.run) = Len(swritten.d.run)
           /\ BatchIds(sresult.run) = BatchIds(swritten.d.run)
           /\ "collect" \in DOMAIN sresult <=> "collect" \in DOMAIN swritten.d

------------------------------------------------------------------------
(* Jobs and submissions: ClusterRoutines.create_jobs                      *)
(* (src/src/tmlib/workflow/api.py 765-857). The classes RunJob,           *)
(* CollectJob, RunJobCollection and WorkflowStep (tmlib.workflow) and the *)
(* execution engine are described by the design document only.           *)

\* largest number of run batches of the job descriptions given to create_jobs
MaxJobs == 2

\* largest number of create_jobs calls
MaxSubmissions == 2

\* Python's None
PyNone == [t |-> "none", v |-> <<>>]

\* values of the argument cores: absent, zero, positive, negative, a string
CoresInputs == {PyNone, PyInt(0), PyInt(2), PyInt(0 - 1), PyStr(<<"2">>)}

\* `if cores:` (line 822)
truthy(x) ==
    CASE x.t = "none" -> FALSE
      [] x.t = "int" -> x.v # 0
      [] OTHER -> x.v # <<>>

\* lines 822-830, run once per run batch: the error raised for cores
cores_error(cores) ==
    IF ~truthy(cores) THEN NoError
    ELSE IF cores.t # "int" THEN "TypeError"
    ELSE IF ~(cores.v > 0) THEN "ValueError"
    ELSE NoError

\* the error create_jobs raises for a run list of n_run batches
create_jobs_error(n_run, cores) ==
    IF n_run = 0 THEN NoError ELSE cores_error(cores)

\* a caller that attaches the jobs to the newest submission there is
submission_reused(dbv) ==
    IF dbv.submissions = {} THEN dbv.next_id
    ELSE CHOOSE i \in dbv.submissions : \A k \in dbv.submissions : k <= i

\* lines 794-796: the id of the Submission row added and flushed
submission_id_of(dbv) == dbv.next_id

\* RunJob(..., job_id=batch['id'], submission_id=submission.id)
RunJob(job_id, submission_id) ==
    [kind |-> "run", job_id |-> job_id, submission_id |-> submission_id]

\* CollectJob(..., submission_id=submission.id)
CollectJob(submission_id) == [kind |-> "collect", submission_id |-> submission_id]

\* a step whose collect job is one more member of the run collection
WorkflowStepParallel(run_jobs, collect_job, submission_id) ==
    [run_jobs |-> run_jobs \o collect_job, collect_job |-> <<>>,
     submission_id |-> submission_id]

\* WorkflowStep(name, run_jobs, collect_job, submission_id) (lines 850-855);
\* collect_job is <<>> for None
WorkflowStep(run_jobs, collect_job, submission_id) ==
    [run_jobs |-> run_jobs, collect_job |-> collect_job,
     submission_id |-> submission_id]

\* lines 798-848: the jobs of job_descriptions d under submission id sid
jobs_of_descriptions(d, sid) ==
    WorkflowStep([i \in 1..Len(d.run) |-> RunJob(d.run[i].id, sid)],
                 IF "collect" \in DOMAIN d THEN <<CollectJob(sid)>> ELSE <<>>,
                 sid)

\* the jobs of a step in the order run jobs, collect job
JobsOf(step) == step.run_jobs \o step.collect_job

\* the state of a job the engine has not seen yet
NewExecution == [state |-> "NEW", exitcode |-> <<>>]

\* Session.__exit__: commit
commit(dbv, sid) ==
    [next_id |-> dbv.next_id + 1, submissions |-> dbv.submissions \cup {sid}]

\* Session.__exit__: rollback; the id sequence does not go back
rollback(dbv) == [dbv EXCEPT !.next_id = @ + 1]

\* create_jobs returned the step
create_jobs_returns(step) ==
    /\ db' = commit(db, step.submission_id)
    /\ created' = [step |-> <<step>>, err |-> NoError]
    /\ jobstate' = [i \in 1..Len(JobsOf(step)) |-> NewExecution]

\* create_jobs raised e inside the session scope
create_jobs_raises(e) ==
    /\ db' = rollback(db)
    /\ created' = [created EXCEPT !.err = e]
    /\ UNCHANGED jobstate

\* create_jobs(job_descriptions, cores=cores)
create_jobs(d, cores) ==
    /\ db.next_id <= MaxSubmissions
    /\ mon.pc \in {"idle", "done", "raised"}
    /\ IF create_jobs_error(Len(d.run), cores) = NoError
       THEN create_jobs_returns(jobs_of_descriptions(d, submission_id_of(db)))
       ELSE create_jobs_raises(create_jobs_error(Len(d.run), cores))
    /\ UNCHANGED mon

(* The execution engine *)

ExitCodes == {0, 1}

ExecutionStates ==
    {[state |-> st, exitcode |-> <<>>] : st \in {"NEW", "SUBMITTED", "RUNNING", "STOPPED"}}
    \cup {[state |-> "TERMINATED", exitcode |-> <<c>>] : c \in ExitCodes}

\* Created -> Submitted -> Running -> {Terminated | Stopped}
Rank(e) ==
    CASE e.state = "NEW" -> 0
      [] e.state = "SUBMITTED" -> 1
      [] e.state = "RUNNING" -> 2
      [] OTHER -> 3

Terminal(e) == e.state \in {"TERMINATED", "STOPPED"}

\* the states a job in state e can be in after a progress step
Later(e) == {e} \cup {f \in ExecutionStates : Rank(f) > Rank(e)}

\* every job of the run collection of the step has ended
RunPhaseEnded(step, js) == \A k \in 1..Len(step.run_jobs) : Terminal(js[k])

\* the sequences that hold at place i an element of sets[i]
RECURSIVE Product(_)
Product(sets) ==
    IF sets = <<>> THEN {<<>>}
    ELSE {<<h>> \o t : h \in Head(sets), t \in Product(Tail(sets))}

\* job i of the step is the collect job, held back until the run phase ended
HeldBack(step, js, i) == i > Len(step.run_jobs) /\ ~RunPhaseEnded(step, js)

(* engine.progress(): the job states it can leave behind. The jobs of     *)
(* the run collection advance independently; the collect job is not       *)
(* started before the run phase has ended.                                *)
engine_progress(step, js) ==
    Product([i \in 1..Len(js) |->
                IF HeldBack(step, js, i) THEN {js[i]} ELSE Later(js[i])])

\* the engine takes a progress step on the jobs of the created step
engine_progress_step ==
    /\ created.step # <<>>
    /\ jobstate' \in engine_progress(created.step[1], jobstate)
    /\ UNCHANGED <<db, created, mon>>

(* Input job descriptions of create_jobs: n run batches with the ids 1..n *)
CreateRunInputs ==
    {[i \in 1..n |-> RunBatchInput(i, "lists")] : n \in 0..MaxJobs}

CreateInputs ==
    {[run |-> l] : l \in CreateRunInputs}
    \cup {[run |-> l, collect |-> c] : l \in CreateRunInputs, c \in CollectBatchInputs}

------------------------------------------------------------------------
(* Specification of job creation and execution *)

InitJobs == JobsIdle /\ WorkflowIdle /\ PathIdle /\ StoreIdle /\ FusionIdle /\ OthersIdle

NextJobs ==
    \/ \E d \in CreateInputs, cores \in CoresInputs :
          create_jobs(d, cores) /\ UNCHANGED <<wfvars, pvars, svars, fvars, uvars, mvars, gvars>>
    \/ engine_progress_step /\ UNCHANGED <<wfvars, pvars, svars, fvars, uvars, mvars, gvars>>

SpecJobs == InitJobs /\ [][NextJobs]_vars

------------------------------------------------------------------------
(* Job monitoring: BasicClusterRoutines.submit_jobs                       *)
(* (src/src/tmlib/workflow/api.py 155-224). get_task_data and             *)
(* log_task_failure (tmlib.workflow.utils) and the aggregate state of a   *)
(* WorkflowStep are described by the design document only.                *)

EngineErrors == {"ConnectionError", "AuthError"}

\* what a call into the engine does: it returns, or raises one of the errors
EngineOutcomes == {NoError} \cup EngineErrors

\* jobs.execution.state: terminal once every job of the step is terminal
aggregate_state(js) ==
    IF \A i \in 1..Len(js) : Terminal(js[i])
    THEN IF \E i \in 1..Len(js) : js[i].state = "STOPPED" THEN "STOPPED"
         ELSE "TERMINATED"
    ELSE IF \A i \in 1..Len(js) : js[i].state = "NEW" THEN "NEW"
    ELSE "RUNNING"

\* get_task_data(jobs): one row per job with its state and exit code
get_task_data(step, js) ==
    [i \in 1..Len(js) |->
        [job |-> JobsOf(step)[i], state |-> js[i].state, exitcode |-> js[i].exitcode]]

\* a row of a job with a non-zero exit code or in the state STOPPED
failed(row) ==
    \/ row.state = "STOPPED"
    \/ row.state = "TERMINATED" /\ row.exitcode # <<0>>

\* log_task_failure(status_data, logger): the jobs the report flags
log_task_failure(status_data) ==
    {status_data[i].job : i \in {k \in 1..Len(status_data) : failed(status_data[k])}}

\* a handler that notes the error of the engine and goes on
on_engine_error_retry(m, e) == [m EXCEPT !.engine_err = e]

\* no handler is around the engine calls (lines 194, 208, 219): the error
\* e raised by the engine leaves submit_jobs
on_engine_error(m, e) == [m EXCEPT !.pc = "raised", !.err = e, !.engine_err = e]

\* lines 184-197: engine.add(jobs), with outcome o
submit_jobs_add(o) ==
    /\ mon.pc = "idle" /\ created.step # <<>>
    /\ mon' = IF o = NoError THEN [mon EXCEPT !.pc = "loop"]
              ELSE on_engine_error(mon, o)
    /\ UNCHANGED <<db, created, jobstate>>

\* a state test that also takes RUNNING for the end
is_terminal_state_or_running(st) == st \in {"TERMINATED", "STOPPED", "RUNNING"}

\* lines 216-217
is_terminal_state(st) == st \in {"TERMINATED", "STOPPED"}

\* a loop that is left as soon as the terminal state is seen
leaves_loop_at_once(break_next, terminal) == break_next \/ terminal

\* `if break_next: break` (lines 213-214), which comes before the state test
leaves_loop(break_next, terminal) == break_next

\* lines 210-211: the status table collected after engine.progress()
collected(m, step, js) ==
    [m EXCEPT !.status_data = get_task_data(step, js),
              !.extra = IF m.break_next THEN @ + 1 ELSE @]

\* line 218-219: break_next is set and engine.progress() called, with outcome o2
sets_break_next(m, o2) ==
    IF o2 = NoError THEN [m EXCEPT !.break_next = TRUE]
    ELSE on_engine_error([m EXCEPT !.break_next = TRUE], o2)

\* lines 213-219, m holding the table just collected
after_status(m, terminal, o2) ==
    IF leaves_loop(m.break_next, terminal) THEN [m EXCEPT !.pc = "after_loop"]
    ELSE IF terminal THEN sets_break_next(m, o2)
    ELSE m

(* One iteration of the loop (lines 198-219): engine.progress() has the   *)
(* outcome o1 and leaves the job states js1; the further progress() call  *)
(* of line 219, made when every job is terminal, has the outcome o2.      *)
submit_jobs_iteration(o1, js1, o2) ==
    /\ mon.pc = "loop"
    /\ IF o1 # NoError
       THEN mon' = on_engine_error(mon, o1) /\ UNCHANGED jobstate
       ELSE /\ jobstate' = js1
            /\ mon' = after_status(collected(mon, created.step[1], js1),
                                   is_terminal_state(aggregate_state(js1)), o2)
    /\ UNCHANGED <<db, created>>

\* a table of the run jobs only
final_status_data_run_jobs(step, js) ==
    get_task_data(step, SubSeq(js, 1, Len(step.run_jobs)))

\* line 221: status_data = get_task_data(jobs)
final_status_data(step, js) == get_task_data(step, js)

\* lines 222-224: the report on the table and the value returned
reported(m, table) ==
    [m EXCEPT !.status_data = table, !.report = <<log_task_failure(table)>>,
              !.returned = <<table>>, !.pc = "done"]

\* lines 221-224
submit_jobs_report ==
    /\ mon.pc = "after_loop"
    /\ mon' = reported(mon, final_status_data(created.step[1], jobstate))
    /\ UNCHANGED <<db, created, jobstate>>

\* the iterations the loop can take
submit_jobs_loop ==
    \E o1 \in EngineOutcomes, o2 \in EngineOutcomes :
        \E js1 \in engine_progress(created.step[1], jobstate) :
            submit_jobs_iteration(o1, js1, o2)

------------------------------------------------------------------------
(* Specification of submit_jobs on a step that create_jobs returned *)

InitMonitor ==
    /\ WorkflowIdle /\ PathIdle /\ StoreIdle /\ FusionIdle /\ OthersIdle
    /\ mon = NotSubmitted
    /\ \E d \in CreateInputs :
          /\ db = commit([next_id |-> 1, submissions |-> {}], 1)
          /\ created = [step |-> <<jobs_of_descriptions(d, 1)>>, err |-> NoError]
          /\ jobstate = [i \in 1..Len(JobsOf(jobs_of_descriptions(d, 1))) |-> NewExecution]

NextMonitor ==
    \/ \E o \in EngineOutcomes : submit_jobs_add(o) /\ UNCHANGED <<wfvars, pvars, svars, fvars, uvars, mvars, gvars>>
    \/ submit_jobs_loop /\ UNCHANGED <<wfvars, pvars, svars, fvars, uvars, mvars, gvars>>
    \/ submit_jobs_report /\ UNCHANGED <<wfvars, pvars, svars, fvars, uvars, mvars, gvars>>

SpecMonitor == InitMonitor /\ [][NextMonitor]_vars

\* the loop keeps running: sleep, progress, status; then the report
SpecMonitorFair ==
    /\ InitMonitor /\ [][NextMonitor]_vars
    /\ WF_jvars(submit_jobs_loop) /\ WF_jvars(submit_jobs_report)

\* every job of the submitted step is in a terminal state
AllTerminal == \A i \in 1..Len(jobstate) : Terminal(jobstate[i])

(* C13: submit_jobs leaves its loop only with break_next set in an        *)
(* earlier iteration and after exactly one iteration that began with      *)
(* break_next set; the iteration that sets break_next, the one in which   *)
(* the terminal state is first observed, does not leave the loop.         *)
C13_OneFurtherIteration ==
    /\ [](mon.pc \in {"after_loop", "done"} => (mon.break_next /\ mon.extra = 1))
    /\ [][(~mon.break_next /\ mon'.break_next) =>
            (mon'.pc \in {"loop", "raised"} /\ mon'.extra = 0)]_vars

\* the loop was left after the further iteration, on jobs that needed
\* several iterations to end
C13_Witness ==
    /\ mon.pc = "after_loop" /\ mon.break_next /\ mon.extra = 1
    /\ Len(jobstate) = 3 /\ AllTerminal
    /\ Len(mon.status_data) = 3

(* C14: submit_jobs leaves its loop only after the terminal aggregate     *)
(* state was observed, when every job is in a terminal state, whatever    *)
(* the exit codes; and once every job is terminal while the loop runs,    *)
(* submit_jobs ends: it returns, or the engine raised.                    *)
C14_FailureDoesNotAbort ==
    /\ [](mon.pc \in {"after_loop", "done"} => (mon.break_next /\ AllTerminal))
    /\ ((mon.pc = "loop" /\ AllTerminal) ~> (mon.pc \in {"done", "raised"}))

\* submit_jobs returned on three jobs of which exactly one exited non-zero
C14_Witness ==
    /\ mon.pc = "done" /\ Len(jobstate) = 3
    /\ Cardinality({i \in 1..3 : jobstate[i].exitcode = <<1>>}) = 1
    /\ Cardinality({i \in 1..3 : jobstate[i].exitcode = <<0>>}) = 2

\* the jobs that exited non-zero or were stopped
FailedJobs(step, js) ==
    {JobsOf(step)[i] :
        i \in {k \in 1..Len(js) : js[k].state = "STOPPED" \/ js[k].exitcode \notin {<<>>, <<0>>}}}

(* C15: when submit_jobs has returned, the report flags exactly the jobs  *)
(* that exited non-zero or were stopped, and the table returned has one   *)
(* row for each job of the step with the state and exit code of the job.  *)
C15_ReportAndTable ==
    mon.pc = "done" =>
        /\ mon.report = <<FailedJobs(created.step[1], jobstate)>>
        /\ Len(mon.returned) = 1
        /\ Len(mon.returned[1]) = Len(JobsOf(created.step[1]))
        /\ \A i \in 1..Len(mon.returned[1]) :
              /\ mon.returned[1][i].job = JobsOf(created.step[1])[i]
              /\ mon.returned[1][i].state = jobstate[i].state
              /\ mon.returned[1][i].exitcode = jobstate[i].exitcode

\* two run jobs succeeded and the collect job exited non-zero: one job flagged
C15_Witness ==
    /\ mon.pc = "done" /\ Len(jobstate) = 3
    /\ Len(created.step[1].collect_job) = 1
    /\ jobstate[1].exitcode = <<0>> /\ jobstate[2].exitcode = <<0>>
    /\ jobstate[3].exitcode = <<1>>
    /\ mon.report = <<{CollectJob(created.step[1].submission_id)}>>

(* C16: once a call into the engine has raised, submit_jobs has raised    *)
(* that same error, no report was emitted and no table returned, and      *)
(* nothing more happens: no further call into the engine is made.         *)
C16_EngineErrorPropagates ==
    /\ [](mon.engine_err # NoError =>
            /\ mon.pc = "raised" /\ mon.err = mon.engine_err
            /\ mon.report = <<>> /\ mon.returned = <<>>)
    /\ [][mon.engine_err # NoError => UNCHANGED <<mon, jobstate>>]_vars

\* the further progress call after the terminal state was seen raised
C16_Witness ==
    /\ mon.pc = "raised" /\ mon.err = "AuthError" /\ mon.engine_err = "AuthError"
    /\ mon.break_next /\ Len(mon.status_data) = 3
    /\ mon.report = <<>> /\ mon.returned = <<>>

\* the places of the run jobs and of the collect jobs among the jobs of a step
JobsOfKind(step, kind) ==
    {i \in 1..Len(JobsOf(step)) : JobsOf(step)[i].kind = kind}

(* C17: in every state, a collect job that the engine has started (it is  *)
(* no longer NEW) belongs to a step whose run jobs have all reached a      *)
(* terminal state (TERMINATED or STOPPED); as terminal states are never    *)
(* left, the start of the collect job is preceded by the end of every run  *)
(* job of the same create_jobs call.                                       *)
C17_CollectAfterRunJobs ==
    created.step # <<>> =>
        \A c \in JobsOfKind(created.step[1], "collect") :
            jobstate[c].state # "NEW" =>
                \A r \in JobsOfKind(created.step[1], "run") : Terminal(jobstate[r])

\* the collect job is running after two run jobs ended, one of them stopped
C17_Witness ==
    /\ created.step # <<>>
    /\ Cardinality(JobsOfKind(created.step[1], "run")) = 2
    /\ \E c \in JobsOfKind(created.step[1], "collect") : jobstate[c].state = "RUNNING"
    /\ \E r \in JobsOfKind(created.step[1], "run") : jobstate[r].state = "STOPPED"

\* every job of the step carries the submission id of the step
CarriesSubmission(step) ==
    \A i \in 1..Len(JobsOf(step)) : JobsOf(step)[i].submission_id = step.submission_id

(* C18: the step that create_jobs returned and each of its jobs carry the *)
(* id of one Submission row, which is in the table; and every create_jobs *)
(* call that returns a step gives it an id that was not in the table      *)
(* before the call and is larger than every id handed out before.         *)
C18_FreshSubmission ==
    /\ [](created.step # <<>> =>
            /\ created.step[1].submission_id \in db.submissions
            /\ CarriesSubmission(created.step[1]))
    /\ [][(db' # db /\ created'.err = NoError) =>
            /\ created'.step[1].submission_id \notin db.submissions
            /\ created'.step[1].submission_id >= db.next_id
            /\ db'.submissions = db.submissions \cup {created'.step[1].submission_id}
            /\ CarriesSubmission(created'.step[1])]_vars

\* the second create_jobs call returned two run jobs and a collect job
C18_Witness ==
    /\ created.step # <<>> /\ created.err = NoError
    /\ Cardinality(db.submissions) = 2
    /\ Len(created.step[1].run_jobs) = 2 /\ Len(created.step[1].collect_job) = 1
    /\ \A k \in db.submissions : k <= created.step[1].submission_id

------------------------------------------------------------------------
(* Fusion of data files: src/src/tmlib/jterator/data_fusion.py            *)
(*                                                                        *)
(* An HDF5 file is a record of its datasets (path -> dataset) and its     *)
(* groups (set of paths). A path is the sequence of its names. A dataset  *)
(* is its number of dimensions and its rows. DatasetReader and            *)
(* DatasetWriter (tmlib.readers, tmlib.writers) are described by the      *)
(* design document only.                                                  *)

\* largest number of input files
MaxFragments == 2

\* largest number of objects of one category in one input file
MaxRows == 2

\* the names of groups and datasets in the order in which a file lists them
NameOrder ==
    <<"area", "cells", "coords", "features", "ids", "ids_old", "map_data",
      "metadata", "nuclei", "object_ids", "objects", "outlines", "segmentation",
      "site", "spots", "sub", "top", "x", "y">>

\* f.exists(path)
exists(f, path) == path \in f.groups \/ path \in DOMAIN f.ds

\* f.list_datasets(path): the names of the datasets right below path
list_datasets(f, path) ==
    SelectSeq(NameOrder, LAMBDA n : (path \o <<n>>) \in DOMAIN f.ds)

\* f.list_groups(path): the names of the groups right below path
list_groups(f, path) ==
    SelectSeq(NameOrder, LAMBDA n : (path \o <<n>>) \in f.groups)

\* the paths of the datasets right below path, in listing order
dataset_paths(f, path) ==
    [k \in 1..Len(list_datasets(f, path)) |-> path \o <<list_datasets(f, path)[k]>>]

\* the concatenation of a sequence of sequences
RECURSIVE Flatten(_)
Flatten(ss) == IF ss = <<>> THEN <<>> ELSE Head(ss) \o Flatten(Tail(ss))

\* the paths of the datasets in the groups right below path
subgroup_dataset_paths(f, path) ==
    Flatten([k \in 1..Len(list_groups(f, path)) |->
                dataset_paths(f, path \o <<list_groups(f, path)[k]>>)])

\* 'objects/%s/features' % obj_name
features_path(obj_name) == <<"objects", obj_name, "features">>

\* 'objects/%s/segmentation' % obj_name
segmentation_path(obj_name) == <<"objects", obj_name, "segmentation">>

\* a cell of a preallocated dataset nothing was written to
Unset == [frag |-> 0, row |-> 0]

\* out.preallocate(path, dims, dtype) for each path of paths
preallocate(out, paths, n) ==
    [out EXCEPT !.ds = [q \in DOMAIN out.ds \cup {paths[k] : k \in 1..Len(paths)} |->
                          IF q \in {paths[k] : k \in 1..Len(paths)}
                          THEN [ndim |-> 1, rows |-> [k \in 1..n |-> Unset]]
                          ELSE out.ds[q]]]

\* out.write(path, data, index) is refused: no such dataset, or index out of it
write_refused(out, path, data, start) ==
    \/ path \notin DOMAIN out.ds
    \/ start + Len(data) > Len(out.ds[path].rows)

\* out.write(path, data, index=range(start, start + len(data)))
write(out, path, data, start) ==
    [out EXCEPT !.ds[path].rows =
        [k \in 1..Len(@) |->
            IF k > start /\ k <= start + Len(data) THEN data[k - start] ELSE @[k]]]

(* Input files *)

FragmentVariants ==
    {"full", "features_only", "segmentation_only", "neither", "two_dim",
     "ragged", "ragged_short", "metadata_two_dim", "stray_two_dim",
     "nuclei_neither"}

\* the rows of input file i in a dataset of n rows
Rows(i, n) == [k \in 1..n |-> [frag |-> i, row |-> k]]

HasFeatures(variant) ==
    variant \in {"full", "features_only", "two_dim", "ragged", "ragged_short",
                 "metadata_two_dim", "stray_two_dim", "nuclei_neither"}

HasSegmentation(variant) ==
    variant \in {"full", "segmentation_only", "two_dim", "ragged", "ragged_short",
                 "metadata_two_dim", "stray_two_dim", "nuclei_neither"}

\* the groups of an input file
FragmentGroups(variant, has_nuclei) ==
    {<<"metadata">>, <<"objects">>, <<"objects", "cells">>}
    \cup (IF HasFeatures(variant) THEN {features_path("cells")} ELSE {})
    \cup (IF HasSegmentation(variant)
          THEN {segmentation_path("cells"), segmentation_path("cells") \o <<"outlines">>}
          ELSE {})
    \cup (IF has_nuclei THEN {<<"objects", "nuclei">>} ELSE {})
    \cup (IF has_nuclei /\ variant # "nuclei_neither" THEN {features_path("nuclei")} ELSE {})
    \cup (IF variant = "stray_two_dim"
          THEN {<<"objects", "spots">>, features_path("spots")} ELSE {})

\* the paths of the datasets of an input file
FragmentPaths(variant, has_nuclei) ==
    {<<"metadata", "site">>}
    \cup (IF HasFeatures(variant) THEN {features_path("cells") \o <<"area">>} ELSE {})
    \cup (IF HasSegmentation(variant)
          THEN {segmentation_path("cells") \o <<"object_ids">>,
                segmentation_path("cells") \o <<"outlines", "y">>}
          ELSE {})
    \cup (IF has_nuclei /\ variant # "nuclei_neither"
          THEN {features_path("nuclei") \o <<"area">>} ELSE {})
    \cup (IF variant = "stray_two_dim" THEN {features_path("spots") \o <<"area">>} ELSE {})

\* the dataset at path q of input file i, whose category cells has r objects
FragmentDataset(i, variant, r, q) ==
    IF q[1] = "metadata"
    THEN [ndim |-> IF variant = "metadata_two_dim" THEN 2 ELSE 1, rows |-> Rows(i, 1)]
    ELSE IF q[2] = "nuclei" THEN [ndim |-> 1, rows |-> Rows(i, 1)]
    ELSE IF q[2] = "spots" THEN [ndim |-> 2, rows |-> Rows(i, 1)]
    ELSE IF q[Len(q)] = "area"
    THEN [ndim |-> IF variant = "two_dim" THEN 2 ELSE 1, rows |-> Rows(i, r)]
    ELSE IF q[Len(q)] = "y" /\ variant = "ragged"
    THEN [ndim |-> 1, rows |-> Rows(i, r + 1)]
    ELSE IF q[Len(q)] = "y" /\ variant = "ragged_short"
    THEN [ndim |-> 1, rows |-> Rows(i, IF r > 0 THEN r - 1 ELSE 0)]
    ELSE [ndim |-> 1, rows |-> Rows(i, r)]

\* input file i
Fragment(i, variant, r, has_nuclei) ==
    [groups |-> FragmentGroups(variant, has_nuclei),
     ds |-> [q \in FragmentPaths(variant, has_nuclei) |-> FragmentDataset(i, variant, r, q)]]

\* the variants all input files but one are of
PlainVariants == {"full", "features_only", "segmentation_only"}

\* the lists of input files: n files of a number of objects each, all of one
\* plain variant but the file at place odd
FusionInputs ==
    {[frags |-> [i \in 1..n |->
                    Fragment(i, IF i = odd THEN variant ELSE plain, rs[i], has_nuclei)],
      exists |-> [i \in 1..n |-> TRUE],
      delete |-> delete] :
        n \in 1..MaxFragments, odd \in 1..MaxFragments, variant \in FragmentVariants,
        plain \in PlainVariants, rs \in [1..MaxFragments -> 0..MaxRows],
        has_nuclei \in BOOLEAN, delete \in BOOLEAN}

(* combine_datasets(input_files, output_file, delete_input_files) *)

\* the sum of a sequence of numbers
RECURSIVE Sum(_)
Sum(ns) == IF ns = <<>> THEN 0 ELSE Head(ns) + Sum(Tail(ns))

\* the names in a sequence as a set
NameSet(names) == {names[k] : k \in 1..Len(names)}

\* lines 50-61: datasets[obj_name]['features'], an empty list by default
discovered_features(f, obj_name) ==
    IF exists(f, features_path(obj_name))
    THEN dataset_paths(f, features_path(obj_name))
    ELSE <<>>

\* lines 73-95: datasets[obj_name]['segmentation'], with the nested groups
discovered_segmentation(f, obj_name) ==
    IF exists(f, segmentation_path(obj_name))
    THEN dataset_paths(f, segmentation_path(obj_name))
             \o subgroup_dataset_paths(f, segmentation_path(obj_name))
    ELSE <<>>

\* line 119: DataError('Features or segmentation data must exist.')
DataIncomplete == "DataError: Features or segmentation data must exist."

\* lines 160-162: DataError('Dataset must be one-dimensional: %s')
ShapeError == "DataError: Dataset must be one-dimensional"

\* f.get_dimensions(path)[0]: the error raised and the number of rows
first_dimension(f, path) ==
    IF path \in DOMAIN f.ds THEN [err |-> NoError, n |-> Len(f.ds[path].rows)]
    ELSE [err |-> "KeyError", n |-> 0]

\* a sizing that takes a category without features and segmentation as empty
object_size_lenient(f, features, obj_name) ==
    IF exists(f, features_path(obj_name))
    THEN IF features = <<>> THEN [err |-> "IndexError", n |-> 0]
         ELSE first_dimension(f, features[1])
    ELSE IF exists(f, segmentation_path(obj_name))
    THEN first_dimension(f, segmentation_path(obj_name) \o <<"object_ids">>)
    ELSE [err |-> NoError, n |-> 0]

\* lines 110-120: the number of objects of one category in one file;
\* features are the feature datasets discovered in the first file
object_size(f, features, obj_name) ==
    IF exists(f, features_path(obj_name))
    THEN IF features = <<>> THEN [err |-> "IndexError", n |-> 0]
         ELSE first_dimension(f, features[1])
    ELSE IF exists(f, segmentation_path(obj_name))
    THEN first_dimension(f, segmentation_path(obj_name) \o <<"object_ids">>)
    ELSE [err |-> DataIncomplete, n |-> 0]

\* lines 104-120: sizes[i][k] for file i and category k
object_sizes(frags, object_names) ==
    [i \in 1..Len(frags) |->
        [k \in 1..Len(object_names) |->
            object_size(frags[i],
                        discovered_features(frags[1], object_names[k]),
                        object_names[k])]]

\* the places of the sizes that raised, file by file
RaisingSizes(sizes) ==
    {ik \in (1..Len(sizes)) \X (1..Len(sizes[1])) : sizes[ik[1]][ik[2]].err # NoError}

\* the first place of a set of places, file by file and category by category
FirstPlace(places) ==
    CHOOSE ik \in places :
        \A jl \in places : ik[1] < jl[1] \/ (ik[1] = jl[1] /\ ik[2] <= jl[2])

\* the error of the sizing phase
sizing_error(sizes) ==
    IF RaisingSizes(sizes) = {} THEN NoError
    ELSE sizes[FirstPlace(RaisingSizes(sizes))[1]][FirstPlace(RaisingSizes(sizes))[2]].err

\* n_objects: the sum over the files for each category
sized_objects(sizes, object_names) ==
    [obj \in NameSet(object_names) |->
        Sum([i \in 1..Len(sizes) |->
                sizes[i][CHOOSE k \in 1..Len(object_names) : object_names[k] = obj].n])]

\* lines 134-136, 140-149 for the categories from the k-th on
RECURSIVE preallocate_objects(_, _, _, _)
preallocate_objects(out, m, object_names, k) ==
    IF k > Len(object_names) THEN out
    ELSE preallocate_objects(
             preallocate(preallocate(out, m.segmentation[object_names[k]],
                                     m.n_objects[object_names[k]]),
                         m.features[object_names[k]], m.n_objects[object_names[k]]),
             m, object_names, k + 1)

\* lines 123-136: the output file is created and every discovered dataset
\* preallocated
preallocated(m, n_jobs) ==
    preallocate_objects(preallocate([groups |-> {}, ds |-> <<>>], m.metadata, n_jobs),
                        m, m.object_names, 1)

\* lines 39-96: what the first file f shows
discovered(f, object_names) ==
    [NotCombined EXCEPT
        !.object_names = object_names,
        !.metadata = dataset_paths(f, <<"metadata">>),
        !.features = [obj \in NameSet(object_names) |-> discovered_features(f, obj)],
        !.segmentation = [obj \in NameSet(object_names) |-> discovered_segmentation(f, obj)],
        !.object_index_count = [obj \in NameSet(object_names) |-> 0]]

\* lines 98-120: the sizes are added up, or the sizing raises
sized(m, sizes) ==
    IF sizing_error(sizes) # NoError
    THEN [m EXCEPT !.pc = "failed", !.err = sizing_error(sizes)]
    ELSE [m EXCEPT !.pc = "copy", !.n_objects = sized_objects(sizes, m.object_names)]

\* the output file after the call got as far as m
created_output(m, n_jobs) ==
    IF m.pc = "failed" THEN <<>> ELSE <<preallocated(m, n_jobs)>>

\* combine_datasets as far as discovery, sizing and preallocation got
combined_start(m) ==
    /\ fus' = m
    /\ fout' = created_output(m, Len(fin.frags))
    /\ UNCHANGED fin

\* lines 11-149: discovery in the first file, sizing over all files,
\* preallocation
combine_datasets_start ==
    /\ fus.pc = "idle" /\ fin.frags # <<>>
    /\ combined_start(
           sized(discovered(fin.frags[1], list_groups(fin.frags[1], <<"objects">>)),
                 object_sizes(fin.frags, list_groups(fin.frags[1], <<"objects">>))))

\* the reads of a list of dataset paths, for category obj_name or the metadata
reads_of(kind, obj_name, paths) ==
    [k \in 1..Len(paths) |-> [kind |-> kind, obj |-> obj_name, path |-> paths[k]]]

\* lines 171-230: what the loop does for one category in file f, in order
object_plan(f, obj_name) ==
    (IF exists(f, features_path(obj_name))
     THEN reads_of("object", obj_name, dataset_paths(f, features_path(obj_name)))
     ELSE <<>>)
    \o (IF exists(f, segmentation_path(obj_name))
        THEN reads_of("object", obj_name,
                      dataset_paths(f, segmentation_path(obj_name))
                          \o subgroup_dataset_paths(f, segmentation_path(obj_name)))
        ELSE <<>>)
    \o <<[kind |-> "advance", obj |-> obj_name, path |-> <<>>]>>

\* lines 149-230: what the loop does for file f, in order
file_plan(f, object_names) ==
    reads_of("metadata", "", dataset_paths(f, <<"metadata">>))
    \o <<[kind |-> "next_job", obj |-> "", path |-> <<>>]>>
    \o Flatten([k \in 1..Len(object_names) |-> object_plan(f, object_names[k])])

\* lines 163-166, 186-189, 203-206, 223-227: the first row of the index
write_start(st, item) ==
    IF item.kind = "metadata" THEN st.job ELSE st.count[item.obj]

\* lines 167, 190, 207, 228: out.write(dataset_path, data=data, index=index)
written_dataset(st, path, data, start) ==
    IF write_refused(st.out, path, data, start)
    THEN [st EXCEPT !.err = "WriteError", !.data_len = Len(data)]
    ELSE [st EXCEPT !.out = write(st.out, path, data, start), !.data_len = Len(data)]

\* a copy that writes whatever the shape of the data is
copied_dataset_unchecked(st, item, data) ==
    written_dataset(st, item.path, data.rows, write_start(st, item))

\* lines 158-167 and alike: data = f.read(dataset_path), the check of its
\* shape and the write
copied_dataset(st, item, data) ==
    IF data.ndim > 1 THEN [st EXCEPT !.err = ShapeError, !.data_len = Len(data.rows)]
    ELSE written_dataset(st, item.path, data.rows, write_start(st, item))

\* a cursor that moves by one row for each file
advanced_by_one(st, obj_name) ==
    [st EXCEPT !.count[obj_name] = @ + 1]

\* line 230: object_index_count[obj_name] += len(data)
advanced(st, obj_name) ==
    [st EXCEPT !.count[obj_name] = @ + st.data_len]

\* a counter of files that is never incremented
next_job_same(st) == st

\* line 168: job_index_count += 1
next_job(st) == [st EXCEPT !.job = @ + 1]

\* one step of the loop body for file f
copy_step(st, item, f) ==
    IF item.kind = "advance" THEN advanced(st, item.obj)
    ELSE IF item.kind = "next_job" THEN next_job(st)
    ELSE copied_dataset(st, item, f.ds[item.path])

\* lines 149-230: the loop body for file f, up to the first exception
RECURSIVE run_plan(_, _, _)
run_plan(st, items, f) ==
    IF items = <<>> \/ st.err # NoError THEN st
    ELSE run_plan(copy_step(st, Head(items), f), Tail(items), f)

\* a removal that also follows a copy that raised
removed_always(inp, i, st) ==
    IF inp.delete THEN [inp EXCEPT !.exists[i] = FALSE] ELSE inp

\* lines 232-234: os.remove(filename) after the file was copied
removed(inp, i, st) ==
    IF inp.delete /\ st.err = NoError THEN [inp EXCEPT !.exists[i] = FALSE] ELSE inp

\* the call after the loop body ran for file i
copied(m, st, i, n_jobs) ==
    [m EXCEPT !.pc = IF st.err # NoError THEN "failed"
                     ELSE IF i = n_jobs THEN "done" ELSE "copy",
              !.i = IF st.err # NoError THEN i ELSE i + 1,
              !.job_index_count = st.job,
              !.object_index_count = st.count,
              !.err = st.err]

\* one iteration of the loop over the input files
combined_copy(st) ==
    /\ fout' = <<st.out>>
    /\ fus' = copied(fus, st, fus.i, Len(fin.frags))
    /\ fin' = removed(fin, fus.i, st)

\* lines 145-234: the datasets of file i are written at the cursors, the
\* cursors move on, the file is removed if asked for
combine_datasets_copy ==
    /\ fus.pc = "copy"
    /\ combined_copy(
           run_plan([out |-> fout[1], data_len |-> 0, job |-> fus.job_index_count,
                     count |-> fus.object_index_count, err |-> NoError],
                    file_plan(fin.frags[fus.i], fus.object_names),
                    fin.frags[fus.i]))

InitFusion ==
    /\ InitWorkflow /\ PathIdle /\ StoreIdle /\ JobsIdle /\ OthersIdle
    /\ fin \in FusionInputs
    /\ fout = <<>>
    /\ fus = NotCombined

NextFusion ==
    \/ combine_datasets_start /\ UNCHANGED <<wfvars, pvars, svars, jvars, uvars, mvars, gvars>>
    \/ combine_datasets_copy /\ UNCHANGED <<wfvars, pvars, svars, jvars, uvars, mvars, gvars>>

SpecFusion == InitFusion /\ [][NextFusion]_vars

\* the datasets of category obj_name in file f
CategoryDatasets(f, obj_name) ==
    {q \in DOMAIN f.ds : Len(q) >= 3 /\ q[1] = "objects" /\ q[2] = obj_name}

\* file f holds one number of rows for category obj_name
HoldsRows(f, obj_name) ==
    /\ CategoryDatasets(f, obj_name) # {}
    /\ \A q1, q2 \in CategoryDatasets(f, obj_name) :
           Len(f.ds[q1].rows) = Len(f.ds[q2].rows)

\* r_i: the number of rows file f holds for category obj_name
HeldRows(f, obj_name) ==
    Len(f.ds[CHOOSE q \in CategoryDatasets(f, obj_name) : TRUE].rows)

\* r_1 + ... + r_(i-1) for the input files
RowsBefore(frags, obj_name, i) ==
    Sum([j \in 1..(i - 1) |-> HeldRows(frags[j], obj_name)])

\* the discovered datasets of category obj_name
FusedDatasets(m, obj_name) ==
    NameSet(m.features[obj_name]) \cup NameSet(m.segmentation[obj_name])

\* the rows of file i stand in the fused dataset q from row offset on
RowsAt(fused, f, q, offset) ==
    \A k \in 1..Len(f.ds[q].rows) : fused.ds[q].rows[offset + k] = f.ds[q].rows[k]

\* every row written to the fused dataset q stands in the range of its file
RowsInRange(fused, frags, obj_name, q) ==
    \A p \in 1..Len(fused.ds[q].rows) :
        fused.ds[q].rows[p] # Unset =>
            p = RowsBefore(frags, obj_name, fused.ds[q].rows[p].frag)
                    + fused.ds[q].rows[p].row

(* C19: when every input file holds one number of rows r_i for an object   *)
(* category, every fused dataset of the category is created with length    *)
(* r_1 + ... + r_N, the rows of every copied file i stand, in their order,  *)
(* at the indices r_1 + ... + r_(i-1) up to r_1 + ... + r_i, and no row of  *)
(* a file stands anywhere else.                                            *)
C19_FragmentRanges ==
    fout # <<>> =>
        \A obj_name \in NameSet(fus.object_names) :
            (\A i \in 1..Len(fin.frags) : HoldsRows(fin.frags[i], obj_name)) =>
                \A q \in FusedDatasets(fus, obj_name) :
                    /\ Len(fout[1].ds[q].rows)
                           = RowsBefore(fin.frags, obj_name, Len(fin.frags) + 1)
                    /\ \A i \in 1..(fus.i - 1) :
                           q \in DOMAIN fin.frags[i].ds =>
                               RowsAt(fout[1], fin.frags[i], q,
                                      RowsBefore(fin.frags, obj_name, i))
                    /\ RowsInRange(fout[1], fin.frags, obj_name, q)

\* two files of one and two objects were fused: three rows, the second
\* file's from the second row on
C19_Witness ==
    /\ fus.pc = "done" /\ Len(fin.frags) = 2
    /\ HoldsRows(fin.frags[1], "cells") /\ HoldsRows(fin.frags[2], "cells")
    /\ HeldRows(fin.frags[1], "cells") = 1 /\ HeldRows(fin.frags[2], "cells") = 2
    /\ \E q \in FusedDatasets(fus, "cells") :
           fout[1].ds[q].rows = <<[frag |-> 1, row |-> 1], [frag |-> 2, row |-> 1],
                                  [frag |-> 2, row |-> 2]>>

(* C20: every metadata dataset of the fused output has as many rows as     *)
(* there are input files, and the metadata value of every copied file i    *)
(* stands at index i, whatever the numbers of objects of the files.        *)
C20_MetadataByOrdinal ==
    fout # <<>> =>
        \A q \in NameSet(fus.metadata) :
            /\ Len(fout[1].ds[q].rows) = Len(fin.frags)
            /\ \A i \in 1..(fus.i - 1) :
                   fout[1].ds[q].rows[i] = fin.frags[i].ds[q].rows[1]

\* two files of two objects and of none were fused: the metadata of the
\* second stands at the second index
C20_Witness ==
    /\ fus.pc = "done" /\ Len(fin.frags) = 2
    /\ HoldsRows(fin.frags[1], "cells") /\ HoldsRows(fin.frags[2], "cells")
    /\ HeldRows(fin.frags[1], "cells") = 2 /\ HeldRows(fin.frags[2], "cells") = 0
    /\ fout[1].ds[<<"metadata", "site">>].rows
           = <<[frag |-> 1, row |-> 1], [frag |-> 2, row |-> 1]>>

\* the number of rows the sizing phase determined for file i and a category
SizedRows(m, frags, obj_name, i) ==
    object_size(frags[i], m.features[obj_name], obj_name).n

\* the sum of the sized rows of the files before file i
SizedRowsBefore(m, frags, obj_name, i) ==
    Sum([j \in 1..(i - 1) |-> SizedRows(m, frags, obj_name, j)])

\* the number of rows of file i that stand in the fused dataset q
RowsStanding(fused, q, i) ==
    Cardinality({p \in 1..Len(fused.ds[q].rows) : fused.ds[q].rows[p].frag = i})

(* C21: throughout the copy phase the write cursor of every object         *)
(* category, after the files before file i were copied, is the sum of the  *)
(* row counts the sizing phase determined for them; it never exceeds the   *)
(* preallocated size, it is the preallocated size when the copy is done,   *)
(* and no row of a copied file is overwritten by another file.             *)
C21_CursorIsSizedSum ==
    fus.pc \in {"copy", "done"} =>
        \A obj_name \in NameSet(fus.object_names) :
            /\ fus.object_index_count[obj_name]
                   = SizedRowsBefore(fus, fin.frags, obj_name, fus.i)
            /\ fus.object_index_count[obj_name] <= fus.n_objects[obj_name]
            /\ fus.pc = "done" =>
                   fus.object_index_count[obj_name] = fus.n_objects[obj_name]
            /\ \A q \in FusedDatasets(fus, obj_name) :
                   \A i \in 1..(fus.i - 1) :
                       q \in DOMAIN fin.frags[i].ds =>
                           RowsStanding(fout[1], q, i) = Len(fin.frags[i].ds[q].rows)

\* the datasets of file f the copy loop reads
ReadDatasets(f, object_names) ==
    {file_plan(f, object_names)[k].path : k \in 1..Len(file_plan(f, object_names))}
        \ {<<>>}

\* file f holds a dataset of more than one dimension
HoldsTwoDim(f) == \E q \in DOMAIN f.ds : f.ds[q].ndim > 1

\* file f holds a dataset of more than one dimension the copy loop reads
ReadsTwoDim(f, object_names) ==
    \E q \in ReadDatasets(f, object_names) : f.ds[q].ndim > 1

\* the call has ended
Ended == fus.pc \in {"done", "failed"}

(* C22 as stated: when a dataset of an input file has more than one       *)
(* dimension, the call ends with DataError 'Dataset must be                *)
(* one-dimensional' and never completes.                                   *)
C22_Original ==
    (Ended /\ \E i \in 1..Len(fin.frags) : HoldsTwoDim(fin.frags[i])) =>
        fus.pc = "failed" /\ fus.err = ShapeError

(* C22: no input file holding a dataset of more than one dimension among   *)
(* those the copy loop reads is ever copied to its end, so the call never  *)
(* completes on such input; and DataError 'Dataset must be                 *)
(* one-dimensional' is raised only while such a file is copied and ends    *)
(* the call.                                                               *)
C22_NeverCopiesTwoDim ==
    /\ fus.pc \in {"copy", "done", "failed"} =>
           \A j \in 1..(fus.i - 1) : ~ReadsTwoDim(fin.frags[j], fus.object_names)
    /\ fus.err = ShapeError =>
           /\ fus.pc = "failed" /\ fout # <<>>
           /\ ReadsTwoDim(fin.frags[fus.i], fus.object_names)

\* the second of two files holds a dataset of two dimensions: the first was
\* copied, the call ended with the DataError
C22_Witness ==
    /\ fus.pc = "failed" /\ fus.err = ShapeError
    /\ Len(fin.frags) = 2 /\ fus.i = 2
    /\ ~HoldsTwoDim(fin.frags[1]) /\ ReadsTwoDim(fin.frags[2], fus.object_names)

\* the places (file, category) where neither features nor segmentation exist
NeitherPlaces(frags, object_names) ==
    {ik \in (1..Len(frags)) \X (1..Len(object_names)) :
        /\ ~exists(frags[ik[1]], features_path(object_names[ik[2]]))
        /\ ~exists(frags[ik[1]], segmentation_path(object_names[ik[2]]))}

\* some file lacks features and segmentation of a discovered category
SomeNeither ==
    NeitherPlaces(fin.frags, list_groups(fin.frags[1], <<"objects">>)) # {}

\* nothing was created, written or deleted
NothingTouched == fout = <<>> /\ \A i \in 1..Len(fin.frags) : fin.exists[i]

\* the sizing raises first at a place without features and segmentation
NeitherRaisesFirst(frags, object_names) ==
    FirstPlace(RaisingSizes(object_sizes(frags, object_names)))
        \in NeitherPlaces(frags, object_names)

(* C23 as stated: when some file lacks both features and segmentation of a *)
(* discovered category, the call fails with DataError 'Features or         *)
(* segmentation data must exist.' before the output file is created and    *)
(* before any input file is deleted.                                       *)
C23_Original ==
    (fus.pc # "idle" /\ SomeNeither) =>
        fus.pc = "failed" /\ fus.err = DataIncomplete /\ NothingTouched

(* C23: when some file lacks both features and segmentation of a           *)
(* discovered category, the call fails in the sizing phase, before the     *)
(* output file is created and before any input file is deleted; the        *)
(* exception is DataError 'Features or segmentation data must exist.'      *)
(* exactly when no earlier file or category made the sizing raise.         *)
C23_FailsInSizing ==
    (fus.pc # "idle" /\ SomeNeither) =>
        /\ fus.pc = "failed" /\ NothingTouched
        /\ fus.err = DataIncomplete
               <=> NeitherRaisesFirst(fin.frags, list_groups(fin.frags[1], <<"objects">>))

\* the second of two files lacks both groups: the call failed with the
\* DataError, no output file, both input files kept though deletion was asked
C23_Witness ==
    /\ fus.pc = "failed" /\ fus.err = DataIncomplete /\ fout = <<>>
    /\ Len(fin.frags) = 2 /\ fin.delete /\ fin.exists = <<TRUE, TRUE>>
    /\ NeitherPlaces(fin.frags, fus.object_names) = {<<2, 1>>}

\* the metadata and object datasets of file f
FragmentDatasets(f) ==
    {q \in DOMAIN f.ds : Len(q) > 0 /\ q[1] \in {"metadata", "objects"}}

\* every dataset of qs, a set of datasets of file i, stands in the fused file
Written(fused, f, qs, i) ==
    \A q \in qs :
        /\ q \in DOMAIN fused.ds
        /\ RowsStanding(fused, q, i) = Len(f.ds[q].rows)

\* every metadata and object dataset of file i stands in the fused file
AllWritten(fused, f, i) == Written(fused, f, FragmentDatasets(f), i)

\* a step removes file i only as the file being copied, all its metadata
\* and object datasets written
RemovesAfterCopy ==
    \A i \in 1..Len(fin.frags) :
        (fin.exists[i] /\ ~fin'.exists[i]) =>
            /\ i = fus.i /\ fus'.err = NoError
            /\ AllWritten(fout'[1], fin.frags[i], i)

\* a step removes file i only as the file being copied, every dataset the
\* copy loop reads in it written
RemovesAfterRead ==
    \A i \in 1..Len(fin.frags) :
        (fin.exists[i] /\ ~fin'.exists[i]) =>
            /\ i = fus.i /\ fus'.err = NoError
            /\ Written(fout'[1], fin.frags[i],
                       ReadDatasets(fin.frags[i], fus.object_names), i)

\* the removed files are exactly those before the file being copied
RemovedInOrder ==
    fin.delete => \A i \in 1..Len(fin.frags) : fin.exists[i] <=> i >= fus.i

(* C24 as stated: with delete_input_files, a file is removed only after    *)
(* all its metadata and object datasets were written to the output, and    *)
(* the files are removed in input order.                                   *)
C24_Original ==
    /\ []RemovedInOrder
    /\ [][RemovesAfterCopy]_vars

(* C24: with delete_input_files, a file is removed only after it was       *)
(* copied to its end without an exception, every dataset the copy loop     *)
(* reads in it written to the output, and the files are removed in input   *)
(* order: the removed files are always exactly those before the file       *)
(* being copied, so when the copy fails at file k the files before k are   *)
(* removed and the files from k on exist.                                  *)
C24_DeleteAfterCopy ==
    /\ []RemovedInOrder
    /\ [][RemovesAfterRead]_vars

\* the copy failed at the second of two files: the first is removed, the
\* second exists
C24_Witness ==
    /\ fin.delete /\ fus.pc = "failed" /\ fout # <<>>
    /\ Len(fin.frags) = 2 /\ fus.i = 2
    /\ fin.exists = <<FALSE, TRUE>>

------------------------------------------------------------------------
(* update_datasets(old_filename, new_filename):                            *)
(* src/src/tmlib/jterator/data_fusion.py                                   *)

\* the names that end with 'objects'
ends_with_objects(name) == name \in {"objects"}

\* the names that start with 'ids'
starts_with_ids(name) == name \in {"ids", "ids_old"}

\* line 261: re.search(r'objects/[^/]+/map_data/', path) for the path made
\* of names: a name ending with 'objects', any name, the name 'map_data' and
\* a slash, which only a further name brings
map_data_pattern(names) ==
    \E j \in 1..Len(names) :
        /\ ends_with_objects(names[j])
        /\ j + 2 < Len(names)
        /\ names[j + 2] = "map_data"

\* line 267: re.search(r'objects/[^/]+/ids', path)
ids_pattern(names) ==
    \E j \in 1..Len(names) :
        /\ ends_with_objects(names[j])
        /\ j + 2 <= Len(names)
        /\ starts_with_ids(names[j + 2])

\* the paths of the groups above a path
Parents(path) == {SubSeq(path, 1, k) : k \in 1..(Len(path) - 1)}

\* new_file.write(d_path, data=data): a new dataset and the groups above it
write_dataset(new, path, data) ==
    [groups |-> new.groups \cup Parents(path),
     ds |-> [q \in DOMAIN new.ds \cup {path} |->
                IF q = path THEN data ELSE new.ds[q]]]

\* lines 270-273: the dataset is written unless the new file has it
copy_dataset(old, new, d_path) ==
    IF exists(new, d_path) THEN new ELSE write_dataset(new, d_path, old.ds[d_path])

\* lines 264-273: the datasets of group g_path from the k-th name on
RECURSIVE copy_datasets(_, _, _, _, _)
copy_datasets(old, new, g_path, names, k) ==
    IF k > Len(names) THEN new
    ELSE IF ids_pattern(g_path \o <<names[k]>>)
    THEN copy_datasets(old, new, g_path, names, k + 1)
    ELSE copy_datasets(old, copy_dataset(old, new, g_path \o <<names[k]>>),
                       g_path, names, k + 1)

\* lines 258-274: the groups below p from the k-th on: a group matching the
\* map data pattern is skipped, of any other the datasets are copied and
\* then its groups
RECURSIVE copy_groups(_, _, _, _, _)
copy_groups(old, new, p, groups, k) ==
    IF k > Len(groups) THEN new
    ELSE IF map_data_pattern(p \o <<groups[k]>>)
    THEN copy_groups(old, new, p, groups, k + 1)
    ELSE copy_groups(
             old,
             copy_groups(old,
                         copy_datasets(old, new, p \o <<groups[k]>>,
                                       list_datasets(old, p \o <<groups[k]>>), 1),
                         p \o <<groups[k]>>,
                         list_groups(old, p \o <<groups[k]>>), 1),
             p, groups, k + 1)

\* lines 257-274: copy_recursive(p)
copy_recursive(old, new, p) == copy_groups(old, new, p, list_groups(old, p), 1)

\* lines 237-275: update_datasets(old_filename, new_filename)
update_datasets ==
    /\ upd.pc = "called"
    /\ upd' = [upd EXCEPT !.pc = "done",
                          !.new = copy_recursive(upd.old, upd.new, <<>>)]

(* Files *)

\* the datasets an old file may hold
OldDatasetPaths ==
    {<<"top">>, <<"metadata", "site">>,
     <<"objects", "cells", "features", "area">>,
     <<"objects", "cells", "features", "sub", "x">>,
     <<"objects", "cells", "ids">>, <<"objects", "cells", "ids_old">>,
     <<"objects", "cells", "map_data", "coords">>,
     <<"objects", "cells", "map_data", "sub", "x">>}

\* the datasets a new file may hold before the call
NewDatasetPaths ==
    {<<"metadata", "site">>, <<"objects", "cells", "features", "area">>,
     <<"objects", "cells", "ids">>, <<"objects", "cells", "map_data", "coords">>}

\* the file number i with the datasets at paths
DataFile(i, paths) ==
    [groups |-> UNION {Parents(q) : q \in paths},
     ds |-> [q \in paths |-> [ndim |-> 1, rows |-> Rows(i, 1)]]]

InitUpdate ==
    /\ InitWorkflow /\ PathIdle /\ StoreIdle /\ JobsIdle /\ FusionIdle
    /\ BatchesIdle /\ GetOrCreateIdle
    /\ \E old_paths \in SUBSET OldDatasetPaths, new_paths \in SUBSET NewDatasetPaths :
           upd = [pc |-> "called", old |-> DataFile(1, old_paths),
                  new |-> DataFile(2, new_paths), before |-> DataFile(2, new_paths)]

NextUpdate ==
    update_datasets /\ UNCHANGED <<wfvars, pvars, svars, jvars, fvars, mvars, gvars>>

SpecUpdate == InitUpdate /\ [][NextUpdate]_vars

\* the datasets the call wrote into the new file
WrittenDatasets == DOMAIN upd.new.ds \ DOMAIN upd.before.ds

\* a dataset path matches one of the two exclusion patterns
Excluded(path) == map_data_pattern(path) \/ ids_pattern(path)

(* C25: update_datasets writes into the new file no dataset whose path     *)
(* lies under objects/<category>/map_data/ or matches                      *)
(* objects/<category>/ids.                                                 *)
C25_ExcludedNeverWritten ==
    upd.pc = "done" => \A q \in WrittenDatasets : ~Excluded(q)

(* C26: after update_datasets every dataset of the old file, at any depth, *)
(* that matches no exclusion pattern and was absent from the new file is   *)
(* in the new file with the old file's content, and every dataset the new  *)
(* file had keeps its content.                                             *)
C26_CopiesAbsentKeepsPresent ==
    upd.pc = "done" =>
        /\ \A q \in DOMAIN upd.old.ds :
               (~Excluded(q) /\ q \notin DOMAIN upd.before.ds) =>
                   q \in DOMAIN upd.new.ds /\ upd.new.ds[q] = upd.old.ds[q]
        /\ \A q \in DOMAIN upd.before.ds :
               q \in DOMAIN upd.new.ds /\ upd.new.ds[q] = upd.before.ds[q]

------------------------------------------------------------------------
(* MetadataConfigurator.create_batches:                                    *)
(* src/tmlib/workflow/metaconfig/api.py                                    *)

\* largest number of acquisitions of the experiment
MaxAcquisitions == 3

\* the ids of the acquisitions in the database
AcquisitionIds == {10 + k : k \in 1..MaxAcquisitions}

\* a description numbered by its acquisition
batch_id_of_acquisition(job_count, acq) == acq.id

\* line 85: 'id': job_count
batch_id(job_count, acq) == job_count

\* lines 84-104: the description of the job for acquisition acq
description(job_count, acq) ==
    [id |-> batch_id(job_count, acq),
     inputs |-> [microscope_metadata_files |->
                    [f \in 1..acq.n_files |-> <<"acquisition", acq.id, f>>]],
     outputs |-> <<>>,
     acquisition_id |-> acq.id]

\* lines 82-105: one iteration of the loop over the acquisitions
create_batches_acquisition ==
    /\ mc.pc = "run" /\ Len(mc.run) < Len(mc.acquisitions)
    /\ mc' = [mc EXCEPT
                 !.job_count = @ + 1,
                 !.run = Append(@, description(mc.job_count + 1,
                                               mc.acquisitions[Len(mc.run) + 1]))]

\* lines 107-112: after the loop the collect description is added and the
\* descriptions are returned
create_batches_collect ==
    /\ mc.pc = "run" /\ Len(mc.run) = Len(mc.acquisitions)
    /\ mc' = [mc EXCEPT !.pc = "done",
                        !.collect = <<[inputs |-> <<>>, outputs |-> <<>>]>>]

\* the acquisitions in the order the query yields them
AcquisitionInputs ==
    UNION {{[k \in 1..n |-> [id |-> ids[k], n_files |-> ns[k]]] :
               ids \in {f \in [1..n -> AcquisitionIds] :
                           \A a, b \in 1..n : a # b => f[a] # f[b]},
               ns \in [1..n -> 0..1]} :
           n \in 0..MaxAcquisitions}

InitBatches ==
    /\ InitWorkflow /\ PathIdle /\ StoreIdle /\ JobsIdle /\ FusionIdle
    /\ UpdateIdle /\ GetOrCreateIdle
    /\ \E acqs \in AcquisitionInputs :
           mc = [NotPlanned EXCEPT !.pc = "run", !.acquisitions = acqs]

NextBatches ==
    \/ create_batches_acquisition
           /\ UNCHANGED <<wfvars, pvars, svars, jvars, fvars, uvars, gvars>>
    \/ create_batches_collect
           /\ UNCHANGED <<wfvars, pvars, svars, jvars, fvars, uvars, gvars>>

SpecBatches == InitBatches /\ [][NextBatches]_vars

(* C27: the run batches of one create_batches pass carry the ids 1..N in   *)
(* list order, N being the number of acquisitions: the k-th batch has id   *)
(* k at every point of the pass, and the returned list has N batches.      *)
C27_DenseIds ==
    /\ \A k \in 1..Len(mc.run) : mc.run[k].id = k
    /\ mc.pc = "done" => Len(mc.run) = Len(mc.acquisitions)

\* two acquisitions, the one with the larger id first: ids 1 and 2
C27_Witness ==
    /\ mc.pc = "done" /\ Len(mc.run) = 2
    /\ mc.run[1].acquisition_id > mc.run[2].acquisition_id
    /\ mc.run[1].id = 1 /\ mc.run[2].id = 2

------------------------------------------------------------------------
(* Session.get_or_create: src/src/tmlib/models/utils.py 148-184.           *)
(* Every worker has a session and a transaction of its own. The table      *)
(* holds at most one row for a value of the keyword arguments: a row       *)
(* inserted by a transaction is seen by the others once it is committed,   *)
(* an insert of a value another open transaction has inserted waits for    *)
(* the end of that transaction, an insert of a committed value raises      *)
(* IntegrityError.                                                         *)

\* largest number of workers calling get_or_create at the same time
MaxWorkers == 2

\* the values of the keyword arguments
Keys == {"a", "b"}

\* the rows with the key of worker w that the transaction of w sees
matching(g, w) ==
    {r \in g.rows : r.key = g.workers[w].key /\ (r.committed \/ r.by = w)}

\* query(model).filter_by(**kwargs).one(): worker w after the query
one(g, w, wk) ==
    IF matching(g, w) = {} THEN [wk EXCEPT !.pc = "raised", !.err = "NoResultFound"]
    ELSE IF Cardinality(matching(g, w)) > 1
    THEN [wk EXCEPT !.pc = "raised", !.err = "MultipleResultsFound"]
    ELSE [wk EXCEPT !.pc = "returned",
                    !.instance = (CHOOSE r \in matching(g, w) : TRUE).id]

\* lines 165-168: the first query; NoResultFound leads to the creation
queried(g, w, wk) ==
    IF wk.err = "NoResultFound" THEN [g.workers[w] EXCEPT !.pc = "create"] ELSE wk

get_or_create_query(w) ==
    /\ goc.workers[w].pc = "query"
    /\ goc' = [goc EXCEPT !.workers[w] = queried(goc, w, one(goc, w, goc.workers[w]))]

\* an IntegrityError that is not handled
integrity_error_raised(wk) == [wk EXCEPT !.pc = "raised", !.err = "IntegrityError"]

\* lines 176-177: IntegrityError is caught, the session is rolled back
integrity_error_caught(wk) == [wk EXCEPT !.pc = "rollback"]

\* lines 172-174: model(**kwargs), add and the INSERT that commit() flushes
get_or_create_insert(w) ==
    /\ goc.workers[w].pc = "create"
    /\ ~\E r \in goc.rows : r.key = goc.workers[w].key /\ ~r.committed
    /\ goc' = IF \E r \in goc.rows : r.key = goc.workers[w].key
              THEN [goc EXCEPT !.workers[w] = integrity_error_caught(@)]
              ELSE [goc EXCEPT
                       !.rows = @ \cup {[id |-> goc.next_id, key |-> goc.workers[w].key,
                                         by |-> w, committed |-> FALSE]},
                       !.next_id = @ + 1,
                       !.workers[w] = [@ EXCEPT !.pc = "commit",
                                                !.instance = goc.next_id]]

\* line 174: the COMMIT of commit(); the new instance is returned (184)
get_or_create_commit(w) ==
    /\ goc.workers[w].pc = "commit"
    /\ goc' = [goc EXCEPT
                  !.rows = {IF r.by = w THEN [r EXCEPT !.committed = TRUE] ELSE r :
                               r \in @},
                  !.workers[w] = [@ EXCEPT !.pc = "returned"]]

\* line 177: self._sqla_session.rollback()
get_or_create_rollback(w) ==
    /\ goc.workers[w].pc = "rollback"
    /\ goc' = [goc EXCEPT
                  !.rows = {r \in @ : r.committed \/ r.by # w},
                  !.workers[w] = [@ EXCEPT !.pc = "requery"]]

\* line 178: the second query, in a new transaction; its instance is
\* returned (184)
get_or_create_requery(w) ==
    /\ goc.workers[w].pc = "requery"
    /\ goc' = [goc EXCEPT
                  !.workers[w] = one(goc, w, [goc.workers[w] EXCEPT !.requeried = TRUE])]

\* the table with a committed row for each key of a set
RECURSIVE TableOf(_, _)
TableOf(keys, next_id) ==
    IF keys = {} THEN {}
    ELSE {[id |-> next_id, key |-> CHOOSE k \in keys : TRUE, by |-> 0,
           committed |-> TRUE]}
         \cup TableOf(keys \ {CHOOSE k \in keys : TRUE}, next_id + 1)

InitGetOrCreate ==
    /\ InitWorkflow /\ PathIdle /\ StoreIdle /\ JobsIdle /\ FusionIdle
    /\ UpdateIdle /\ BatchesIdle
    /\ \E n \in 1..MaxWorkers, keys \in [1..MaxWorkers -> Keys], present \in SUBSET Keys :
           goc = [rows |-> TableOf(present, 1),
                  next_id |-> Cardinality(present) + 1,
                  workers |-> [w \in 1..n |->
                                  [key |-> keys[w], pc |-> "query", instance |-> 0,
                                   requeried |-> FALSE, err |-> NoError]]]

NextGetOrCreate ==
    \/ \E w \in 1..Len(goc.workers) :
           get_or_create_query(w)
               /\ UNCHANGED <<wfvars, pvars, svars, jvars, fvars, uvars, mvars>>
    \/ \E w \in 1..Len(goc.workers) :
           get_or_create_insert(w)
               /\ UNCHANGED <<wfvars, pvars, svars, jvars, fvars, uvars, mvars>>
    \/ \E w \in 1..Len(goc.workers) :
           get_or_create_commit(w)
               /\ UNCHANGED <<wfvars, pvars, svars, jvars, fvars, uvars, mvars>>
    \/ \E w \in 1..Len(goc.workers) :
           get_or_create_rollback(w)
               /\ UNCHANGED <<wfvars, pvars, svars, jvars, fvars, uvars, mvars>>
    \/ \E w \in 1..Len(goc.workers) :
           get_or_create_requery(w)
               /\ UNCHANGED <<wfvars, pvars, svars, jvars, fvars, uvars, mvars>>

SpecGetOrCreate == InitGetOrCreate /\ [][NextGetOrCreate]_vars

\* the committed rows of a key
RowsOfKey(k) == {r \in goc.rows : r.key = k /\ r.committed}

(* C30: workers calling get_or_create at the same time with the same       *)
(* keyword arguments: in every interleaving no call raises, the table      *)
(* never holds more than one row of these arguments, and every call that   *)
(* has returned returned the one committed row of its arguments.           *)
C30_ConcurrentGetOrCreate ==
    /\ \A w \in 1..Len(goc.workers) : goc.workers[w].pc # "raised"
    /\ \A k \in Keys : Cardinality({r \in goc.rows : r.key = k}) <= 1
    /\ \A w \in 1..Len(goc.workers) :
           goc.workers[w].pc = "returned" =>
               RowsOfKey(goc.workers[w].key)
                   = {r \in goc.rows : r.id = goc.workers[w].instance}

\* two workers with the same arguments and no row at first: one inserted the
\* row, the other lost the race, rolled back and read it; both returned it
C30_Witness ==
    /\ Len(goc.workers) = 2
    /\ goc.workers[1].key = goc.workers[2].key
    /\ goc.workers[1].pc = "returned" /\ goc.workers[2].pc = "returned"
    /\ goc.workers[1].instance = goc.workers[2].instance
    /\ \E r \in RowsOfKey(goc.workers[1].key) : r.by # 0
    /\ goc.workers[1].requeried \/ goc.workers[2].requeried

=============================================================================
